---- MODULE Spec2Model ----
(***************************************************************************)
(* A model of rubber's dependency engine: the content snapshots of         *)
(* src/src/contents.py and the recursive Node.make of src/src/depend.py.   *)
(***************************************************************************)
EXTENDS Integers, Sequences, FiniteSets, TLC

\* ------------------------------------------------------------------ bounds

\* Number of top-level Node.make calls explored in one behaviour.
MaxCalls == 2
\* Number of external file modifications explored in one behaviour of Spec.
MaxEnv == 1
\* Number of external file modifications explored in one behaviour of SnapSpec.
MaxSnapEnv == 3
\* Number of processes explored in one behaviour of CacheSpec.
MaxProcs == 2
\* Number of top-level Node.make calls of one process of CacheSpec.
MaxCacheCalls == 1
\* Number of external file modifications explored in one behaviour of CacheSpec.
MaxCacheEnv == 1

\* --------------------------------------------------------------- constants

\* depend.py: return values of Node.make
\* (UNCHANGED is a reserved word of TLA+, hence the capitalisation)
Error == 0
Unchanged == 1
Changed == 2
\* depend.py: "for patience in range (5)"
Patience == 5
\* hashlib.md5 digests have 16 bytes
DigestLen == 16
\* Python's None where a Node is expected (failed_dep, _producer)
NoNode == 0
\* _File._mtime before its first assignment
NoMtime == -1

Nodes == {1, 2, 3}
Paths == {"a", "b", "c"}
Contents == {0, 1}

\* Python's None where a checksum is expected (_File._checksum)
NoneCs == <<-1>>
\* contents.NO_SUCH_FILE = bytes ()
NO_SUCH_FILE == <<>>
\* Python's None for Node.snapshots
NoneSnap == <<NoneCs>>

\* The digest of a file content; distinct contents have distinct digests.
Md5(c) == [i \in 1..DigestLen |-> (c * 31 + i * 7) % 256]

\* ------------------------------------------------- checksums as text

\* A text is the sequence of its characters.
Spaces(n) == [i \in 1..n |-> " "]

\* contents.cs_str_len
cs_str_len == 32

\* The literal that cs2str writes for NO_SUCH_FILE.
NoSuchFileStr ==
    <<"N", "o", " ", "s", "u", "c", "h", " ", "f", "i", "l", "e">> \o Spaces(20)

HexDigits ==
    <<"0", "1", "2", "3", "4", "5", "6", "7", "8", "9", "A", "B", "C", "D", "E", "F">>

\* A formatting that writes the low half of a byte first.
Hex2Swapped(byte) == <<HexDigits[(byte % 16) + 1], HexDigits[(byte \div 16) + 1]>>

\* '{:02X}'.format (byte)
Hex2(byte) == <<HexDigits[(byte \div 16) + 1], HexDigits[(byte % 16) + 1]>>

\* A cs2str without the special case of NO_SUCH_FILE.
cs2strHexOnly(checksum) ==
    LET result == [k \in 1..(2 * Len(checksum)) |->
                      Hex2(checksum[(k + 1) \div 2])[IF k % 2 = 1 THEN 1 ELSE 2]]
    IN  [text |-> result,
         fault |-> IF Len(result) = cs_str_len THEN "" ELSE "AssertionError"]

\* contents.cs2str; fault stands for the failed "assert len (result) == cs_str_len".
cs2str(checksum) ==
    LET result == IF checksum = NO_SUCH_FILE
                  THEN NoSuchFileStr
                  ELSE [k \in 1..(2 * Len(checksum)) |->
                          Hex2(checksum[(k + 1) \div 2])[IF k % 2 = 1 THEN 1 ELSE 2]]
    IN  [text |-> result,
         fault |-> IF Len(result) = cs_str_len THEN "" ELSE "AssertionError"]

\* The value of a hexadecimal digit as int (.., base=16) reads it, upper or
\* lower case; -1 for any other character.
HexVal(ch) ==
    CASE ch = "0" -> 0 [] ch = "1" -> 1 [] ch = "2" -> 2 [] ch = "3" -> 3
      [] ch = "4" -> 4 [] ch = "5" -> 5 [] ch = "6" -> 6 [] ch = "7" -> 7
      [] ch = "8" -> 8 [] ch = "9" -> 9
      [] ch \in {"A", "a"} -> 10 [] ch \in {"B", "b"} -> 11
      [] ch \in {"C", "c"} -> 12 [] ch \in {"D", "d"} -> 13
      [] ch \in {"E", "e"} -> 14 [] ch \in {"F", "f"} -> 15
      [] OTHER -> -1

IsSpace(ch) == ch \in {" ", "\n"}

\* int (string [i:i+2], base=16) of the two characters hi and lo: int strips
\* white space around the digits; -1 stands for the ValueError.
Int16(hi, lo) ==
    IF HexVal(hi) >= 0 /\ HexVal(lo) >= 0 THEN 16 * HexVal(hi) + HexVal(lo)
    ELSE IF IsSpace(hi) /\ HexVal(lo) >= 0 THEN HexVal(lo)
    ELSE IF HexVal(hi) >= 0 /\ IsSpace(lo) THEN HexVal(hi)
    ELSE -1

\* contents.str2cs; fault stands for the failed assertion on the length or
\* for the ValueError of int.
str2cs(string) ==
    IF Len(string) # cs_str_len
    THEN [cs |-> NoneCs, fault |-> "AssertionError"]
    ELSE IF string = NoSuchFileStr
    THEN [cs |-> NO_SUCH_FILE, fault |-> ""]
    ELSE LET bytes == [k \in 1..(cs_str_len \div 2) |->
                         Int16(string[2 * k - 1], string[2 * k])]
         IN  IF \E k \in 1..(cs_str_len \div 2) : bytes[k] < 0
             THEN [cs |-> NoneCs, fault |-> "ValueError"]
             ELSE [cs |-> bytes, fault |-> ""]

\* _File.__init__
NewFile == [checksum |-> NoneCs, mtime |-> NoMtime, producer |-> NoNode]

\* A factory that forgets the instances it made.
FactoryFresh(fbp, path) == (path :> NewFile) @@ fbp

\* contents.factory: one _File per path, created on first lookup.
Factory(fbp, path) ==
    IF path \in DOMAIN fbp THEN fbp ELSE (path :> NewFile) @@ fbp

\* A snapshot that rehashes a rewritten file but keeps the old _mtime.
SnapshotStaleMtime(f, d) ==
    IF d.exists
    THEN IF f.checksum = NoneCs \/ f.checksum = NO_SUCH_FILE
         THEN [file  |-> [f EXCEPT !.checksum = Md5(d.content), !.mtime = d.mtime],
               fp    |-> Md5(d.content), read |-> TRUE, fault |-> ""]
         ELSE IF f.mtime = d.mtime
         THEN [file |-> f, fp |-> f.checksum, read |-> FALSE, fault |-> ""]
         ELSE IF ~(f.mtime < d.mtime)
         THEN [file |-> f, fp |-> NoneCs, read |-> FALSE, fault |-> "mtime decreased"]
         ELSE [file  |-> [f EXCEPT !.checksum = Md5(d.content)],
               fp    |-> Md5(d.content), read |-> TRUE, fault |-> ""]
    ELSE IF f.checksum = NoneCs
         THEN [file |-> [f EXCEPT !.checksum = NO_SUCH_FILE],
               fp   |-> NO_SUCH_FILE, read |-> FALSE, fault |-> ""]
         ELSE IF f.checksum # NO_SUCH_FILE
         THEN [file |-> f, fp |-> NoneCs, read |-> FALSE, fault |-> "vanished"]
         ELSE [file |-> f, fp |-> f.checksum, read |-> FALSE, fault |-> ""]

\* A snapshot that takes a vanished file for one that never existed.
SnapshotVanishedOk(f, d) ==
    IF d.exists
    THEN IF f.checksum = NoneCs \/ f.checksum = NO_SUCH_FILE
         THEN [file  |-> [f EXCEPT !.checksum = Md5(d.content), !.mtime = d.mtime],
               fp    |-> Md5(d.content), read |-> TRUE, fault |-> ""]
         ELSE IF f.mtime = d.mtime
         THEN [file |-> f, fp |-> f.checksum, read |-> FALSE, fault |-> ""]
         ELSE IF ~(f.mtime < d.mtime)
         THEN [file |-> f, fp |-> NoneCs, read |-> FALSE, fault |-> "mtime decreased"]
         ELSE [file  |-> [f EXCEPT !.checksum = Md5(d.content), !.mtime = d.mtime],
               fp    |-> Md5(d.content), read |-> TRUE, fault |-> ""]
    ELSE [file |-> [f EXCEPT !.checksum = NO_SUCH_FILE],
          fp   |-> NO_SUCH_FILE, read |-> FALSE, fault |-> ""]

\* A snapshot that rehashes whenever the mtime differs, older or newer.
SnapshotBackdated(f, d) ==
    IF d.exists
    THEN IF f.checksum = NoneCs \/ f.checksum = NO_SUCH_FILE
         THEN [file  |-> [f EXCEPT !.checksum = Md5(d.content), !.mtime = d.mtime],
               fp    |-> Md5(d.content), read |-> TRUE, fault |-> ""]
         ELSE IF f.mtime = d.mtime
         THEN [file |-> f, fp |-> f.checksum, read |-> FALSE, fault |-> ""]
         ELSE [file  |-> [f EXCEPT !.checksum = Md5(d.content), !.mtime = d.mtime],
               fp    |-> Md5(d.content), read |-> TRUE, fault |-> ""]
    ELSE IF f.checksum = NoneCs
         THEN [file |-> [f EXCEPT !.checksum = NO_SUCH_FILE],
               fp   |-> NO_SUCH_FILE, read |-> FALSE, fault |-> ""]
         ELSE IF f.checksum # NO_SUCH_FILE
         THEN [file |-> f, fp |-> NoneCs, read |-> FALSE, fault |-> "vanished"]
         ELSE [file |-> f, fp |-> f.checksum, read |-> FALSE, fault |-> ""]

\* _File.snapshot on the _File f while the external file is in state d.
\* fault # "" stands for the AssertionError; read tells whether
\* _checksum_algorithm read the bytes of the file.
Snapshot(f, d) ==
    IF d.exists
    THEN IF f.checksum = NoneCs \/ f.checksum = NO_SUCH_FILE
         THEN [file  |-> [f EXCEPT !.checksum = Md5(d.content), !.mtime = d.mtime],
               fp    |-> Md5(d.content), read |-> TRUE, fault |-> ""]
         ELSE IF f.mtime = d.mtime
         THEN [file |-> f, fp |-> f.checksum, read |-> FALSE, fault |-> ""]
         ELSE IF ~(f.mtime < d.mtime)
         THEN [file |-> f, fp |-> NoneCs, read |-> FALSE, fault |-> "mtime decreased"]
         ELSE [file  |-> [f EXCEPT !.checksum = Md5(d.content), !.mtime = d.mtime],
               fp    |-> Md5(d.content), read |-> TRUE, fault |-> ""]
    ELSE IF f.checksum = NoneCs
         THEN [file |-> [f EXCEPT !.checksum = NO_SUCH_FILE],
               fp   |-> NO_SUCH_FILE, read |-> FALSE, fault |-> ""]
         ELSE IF f.checksum # NO_SUCH_FILE
         THEN [file |-> f, fp |-> NoneCs, read |-> FALSE, fault |-> "vanished"]
         ELSE [file |-> f, fp |-> f.checksum, read |-> FALSE, fault |-> ""]

\* tuple (s.snapshot () for s in self.sources): the sources are snapshot in
\* order; the first AssertionError ends the evaluation.
RECURSIVE SnapshotAll(_, _, _)
SnapshotAll(fbp, dsk, srcs) ==
    IF srcs = <<>>
    THEN [files |-> fbp, fps |-> <<>>, fault |-> ""]
    ELSE LET p == Head(srcs)
             r == Snapshot(fbp[p], dsk[p])
         IN  IF r.fault # ""
             THEN [files |-> fbp, fps |-> <<>>, fault |-> r.fault]
             ELSE LET rest == SnapshotAll([fbp EXCEPT ![p] = r.file], dsk, Tail(srcs))
                  IN  [files |-> rest.files,
                       fps   |-> <<r.fp>> \o rest.fps,
                       fault |-> rest.fault]

\* ------------------------------------------------------------------- state

VARIABLES
    disk,        \* the external files: path -> [exists, mtime, content]
    files,       \* contents._file_by_path: path -> _File
    sources,     \* Node.sources: node -> sequence of paths
    products,    \* Node.products: node -> sequence of paths
    recipe,      \* node -> [latex: is a LaTeXDep, flip: run () alternates its output]
    edits,       \* number of add_source and remove_source calls so far
    snapshots,   \* Node.snapshots
    making,      \* Node.making
    failed_dep,  \* Node.failed_dep
    stack,       \* the active Node.make calls, innermost last
    fault,       \* the exception that ended the latest top-level call, if any
    lastRet,     \* the latest return of Node.make: its value, and what the call did
    goodSnap,    \* node -> the snapshots its latest successful run () was built from
    lastSnap,    \* the latest direct call of snapshot: its result
    obs,         \* path -> what the latest direct snapshot call saw and returned
    calls,       \* number of top-level make calls so far
    envUsed,     \* number of external modifications so far
    cache,       \* the cache file: [exists, lines], a line being its characters
    session,     \* the running process, and what save_cache and load_cache did
    driver,      \* cmdline.build once make has returned: what it displays
    codec,       \* a checksum, its text by cs2str, and what str2cs reads back
    parser,      \* LogCheck.parse: its local variables, the lines read, what it yielded
    logcheck,    \* a LogCheck: the lines it holds, what readlog returned, the pass before
    compiler     \* LaTeXDep.compile: what the latest call was given and what it returned

vars == <<disk, files, sources, products, recipe, edits, snapshots, making, failed_dep,
          stack, fault, lastRet, goodSnap, lastSnap, obs, calls, envUsed,
          cache, session, driver, codec, parser, logcheck,
          compiler>>

\* What no step of Node.make or of snapshot changes.
cacheVars == <<cache, session>>
toolVars == <<driver, codec, parser, logcheck, compiler>>
nodeVars == <<sources, products, recipe, edits, cacheVars, toolVars>>
snapVars == <<lastSnap, obs>>
makeVars == <<snapshots, making, failed_dep, stack, fault, lastRet, goodSnap, calls>>

Registered(n) == products[n] # <<>>

Range(s) == {s[i] : i \in 1..Len(s)}

NoFault == [kind |-> "", node |-> NoNode, depth |-> 0]
NoRet == [node |-> NoNode, rv |-> Unchanged, runs |-> 0, defers |-> 0, moved |-> 0, why |-> "",
          built |-> FALSE, depth |-> 0, work |-> 0, culprit |-> NoNode]
NoSnap == [path |-> "", fp |-> NoneCs, read |-> FALSE, fault |-> ""]
NoObs == [seen |-> FALSE, exists |-> FALSE, mtime |-> 0, fp |-> NoneCs]
\* cmdline.build has not got a return value of make to report.
NoDriver == [pc |-> "", ret |-> Unchanged, errs |-> <<>>, max_errors |-> 0,
             number |-> 0, pos |-> 0, shown |-> <<>>, more |-> FALSE]
\* No checksum is being written or read.
NoCodec == [pc |-> "", checksum |-> NoneCs, text |-> <<>>, back |-> NoneCs, fault |-> ""]
\* No cache file, and a first process that has not touched one.
NoCache == [exists |-> FALSE, lines |-> <<>>]
NoSession ==
    [proc      |-> 1,       \* the number of the running process
     loaded    |-> "",      \* how load_cache ended in this process: "ok" or the exception
     loadCalls |-> 0,       \* the make calls of this process before load_cache
     before    |-> <<>>,    \* Node.snapshots when load_cache was called
     found     |-> <<>>,    \* the external files when load_cache was called
     saved     |-> FALSE,   \* save_cache has been called
     root      |-> NoNode,  \* ... with this node as final
     afterMake |-> FALSE,   \* ... right after a make of it that did not fail
     snapshots |-> <<>>,    \* ... Node.snapshots then
     sources   |-> <<>>,    \* ... Node.sources then
     disk      |-> <<>>,    \* ... the external files then
     damaged   |-> FALSE]   \* the cache file was altered since

\* A line of the log is the sequence of its characters.  None of a group
\* that took no part in a match, and of pos [0].
NoneText == <<"None">>
\* The entry that a diagnostic does not have.
Absent == <<"absent">>
\* The character U+0060, the opening quote of TeX's messages.
Grave == "grave"

\* An int in an entry of a diagnostic (the other entries are texts).
IntValue(n) == <<"int", n>>

\* A diagnostic that parse yields: a dict, here with every key that parse
\* ever sets; the keys that a dict does not have are Absent.
NoDiag ==
    [kind |-> "", text |-> Absent, line |-> Absent, code |-> Absent, file |-> Absent,
     macro |-> Absent, pkg |-> Absent, last |-> Absent, page |-> Absent, why |-> Absent,
     ref |-> Absent]

\* The local variables of parse before the first line, with the flags given;
\* lines are the lines read so far, out the diagnostics yielded so far, fault
\* the exception that left parse.
NoParser ==
    [pc |-> "", errors |-> FALSE, boxes |-> FALSE, refs |-> FALSE, warnings |-> FALSE,
     lines |-> <<>>, out |-> <<>>, fault |-> "",
     last_file |-> NoneText, pos |-> <<NoneText>>, page |-> 1,
     parsing |-> FALSE, skipping |-> FALSE, prefix |-> NoneText, accu |-> <<>>,
     macro |-> NoneText, cseqs |-> {}, error |-> NoneText,
     text |-> <<>>, info |-> NoDiag]

\* The pass of parse before the current one: its flags, the self.lines it
\* was given and what it yielded; none before the second call of parse.
NoPass ==
    [valid |-> FALSE, errors |-> FALSE, boxes |-> FALSE, refs |-> FALSE,
     warnings |-> FALSE, held |-> FALSE, lines |-> <<>>, out |-> <<>>, fault |-> ""]

\* LogCheck.__init__: "self.lines = None" is held FALSE. ret is what the
\* latest readlog returned, long whether it warned of a long log, file the
\* file it was given; reads and passes count the calls of readlog and parse;
\* given is the self.lines that the current pass of parse iterates over.
NoLogCheck ==
    [held |-> FALSE, lines |-> <<>>, ret |-> "", long |-> FALSE,
     file |-> [exists |-> FALSE, text |-> <<>>], reads |-> 0, passes |-> 0,
     given |-> [held |-> FALSE, lines |-> <<>>], prev |-> NoPass]

\* LaTeXDep.compile has not been called: status is the exit status of the
\* compiler, produced whether the primary product exists after it, ret what
\* compile has returned, runs the number of calls.
NoCompiler ==
    [pc |-> "", status |-> 0, file |-> [exists |-> FALSE, text |-> <<>>],
     produced |-> FALSE, ret |-> FALSE, read |-> FALSE, runs |-> 0]

\* ------------------------------------------------------------------ graphs

\* One recipe whose second product is also its source (a LaTeX run and its
\* .aux file).
SelfGraph ==
    [sources  |-> (1 :> <<"a", "b">>) @@ (2 :> <<>>) @@ (3 :> <<>>),
     products |-> (1 :> <<"c", "b">>) @@ (2 :> <<>>) @@ (3 :> <<>>)]

\* Node 1 is built from the product of node 2.
ChainGraph ==
    [sources  |-> (1 :> <<"b">>) @@ (2 :> <<"a">>) @@ (3 :> <<>>),
     products |-> (1 :> <<"c">>) @@ (2 :> <<"b">>) @@ (3 :> <<>>)]

\* Node 1 needs the product of node 2, which needs the product of node 1
\* (the .aux/.bbl cycle of LaTeX and BibTeX: node 1 is the LaTeXDep).
CycleGraph ==
    [sources  |-> (1 :> <<"a", "b">>) @@ (2 :> <<"c">>) @@ (3 :> <<>>),
     products |-> (1 :> <<"c">>) @@ (2 :> <<"b">>) @@ (3 :> <<>>)]

\* Node 1 needs the products of nodes 2 and 3, and node 2 that of node 3.
DiamondGraph ==
    [sources  |-> (1 :> <<"b", "a">>) @@ (2 :> <<"a">>) @@ (3 :> <<>>),
     products |-> (1 :> <<"c">>) @@ (2 :> <<"b">>) @@ (3 :> <<"a">>)]

Graphs == {SelfGraph, ChainGraph, CycleGraph, DiamondGraph}

\* Node.add_product: the node becomes the producer of the path.
Producer(g, p) ==
    IF \E n \in Nodes : p \in Range(g.products[n])
    THEN CHOOSE n \in Nodes : p \in Range(g.products[n])
    ELSE NoNode

GraphPaths(g) ==
    UNION {Range(g.sources[n]) \cup Range(g.products[n]) : n \in Nodes}

\* The _File instances after the nodes of g have been constructed.
InitFiles(g) ==
    [p \in GraphPaths(g) |-> [NewFile EXCEPT !.producer = Producer(g, p)]]

\* Whether the output of the recipe of n is read by some recipe.
Feeds(g, n) ==
    \E m \in Nodes : Range(g.products[n]) \cap Range(g.sources[m]) # {}

Init ==
    /\ \E g \in Graphs :
         /\ sources = g.sources
         /\ products = g.products
         /\ files = InitFiles(g)
         /\ recipe \in [Nodes -> [latex : BOOLEAN, flip : BOOLEAN]]
         /\ \A n \in Nodes :
              /\ recipe[n].latex => n = 1
              /\ recipe[n].flip => Feeds(g, n)
         /\ g = CycleGraph => recipe[1].latex /\ ~recipe[2].flip
         /\ g = DiamondGraph => \A n \in Nodes : ~recipe[n].flip
    \* The sources that no recipe produces exist or not; no product is built yet.
    /\ \E e \in BOOLEAN :
         disk = [p \in Paths |-> [exists |-> e /\ files[p].producer = NoNode,
                                  mtime |-> 0, content |-> 0]]
    /\ snapshots = [n \in Nodes |-> NoneSnap]
    /\ making = [n \in Nodes |-> FALSE]
    /\ failed_dep = [n \in Nodes |-> NoNode]
    /\ stack = <<>>
    /\ fault = NoFault
    /\ edits = 0
    /\ lastRet = NoRet
    /\ goodSnap = [n \in Nodes |-> NoneSnap]
    /\ lastSnap = NoSnap
    /\ obs = [p \in Paths |-> NoObs]
    /\ calls = 0
    /\ envUsed = 0
    /\ cache = NoCache
    /\ session = NoSession
    /\ driver = NoDriver
    /\ codec = NoCodec
    /\ parser = NoParser
    /\ logcheck = NoLogCheck
    /\ compiler = NoCompiler

\* ------------------------------------------------------- external changes

\* What a write leaves of a file: present, with a newer modification time.
Written(d, c) == [exists |-> TRUE, mtime |-> d.mtime + 1, content |-> c]

\* Someone edits (or creates) the file p: new contents, newer mtime.
EnvEdit(p, max) ==
    /\ envUsed < max
    /\ \E c \in Contents :
         /\ ~disk[p].exists \/ c # disk[p].content
         /\ disk' = [disk EXCEPT ![p] = Written(disk[p], c)]
    /\ envUsed' = envUsed + 1

\* Someone rewrites p with the bytes it holds already: newer mtime only.
EnvTouch(p, max) ==
    /\ envUsed < max
    /\ disk[p].exists
    /\ disk' = [disk EXCEPT ![p] = Written(disk[p], disk[p].content)]
    /\ envUsed' = envUsed + 1

\* Someone removes p.
EnvRemove(p, max) ==
    /\ envUsed < max
    /\ disk[p].exists
    /\ disk' = [disk EXCEPT ![p] = [exists |-> FALSE, mtime |-> disk[p].mtime, content |-> 0]]
    /\ envUsed' = envUsed + 1

\* Someone sets the modification time of p back ("users may change
\* timestamps").
EnvBackdate(p, max) ==
    /\ envUsed < max
    /\ disk[p].exists
    /\ disk[p].mtime > 0
    /\ disk' = [disk EXCEPT ![p].mtime = disk[p].mtime - 1]
    /\ envUsed' = envUsed + 1

\* ------------------------------------------------------- direct snapshots

\* factory (p).snapshot () called from outside the dependency engine.
SnapshotCall(p) ==
    LET fbp == Factory(files, p)
        r   == Snapshot(fbp[p], disk[p])
    IN  /\ files' = [fbp EXCEPT ![p] = r.file]
        /\ lastSnap' = [path |-> p, fp |-> r.fp, read |-> r.read, fault |-> r.fault]
        /\ obs' = IF r.fault # "" THEN obs
                  ELSE [obs EXCEPT ![p] = [seen |-> TRUE, exists |-> disk[p].exists,
                                           mtime |-> disk[p].mtime, fp |-> r.fp]]
        /\ UNCHANGED <<disk, envUsed, nodeVars, makeVars>>

\* -------------------------------------------------------------- Node.make

Top == stack[Len(stack)]
Below == SubSeq(stack, 1, Len(stack) - 1)
SetTop(f) == stack' = Below \o <<f>>

\* The local state of real_make when it starts.
NewFrame(n) ==
    [node |-> n, pc |-> IF sources[n] = <<>> THEN "check" ELSE "sources",
     i |-> 1, patience |-> 0, rv |-> Unchanged, runs |-> 0, defers |-> 0, moved |-> 0,
     why |-> "", work |-> 0, culprit |-> NoNode]

\* The next source of the loop "for source in self.sources", or the
\* comparison of the snapshots after the last one.
Advance(f) ==
    IF f.i < Len(sources[f.node])
    THEN [f EXCEPT !.i = f.i + 1]
    ELSE [f EXCEPT !.pc = "check"]

\* An exception leaves Node.make and every caller: no handler, no finally.
Raise(kind, n) ==
    /\ stack' = <<>>
    /\ fault' = [kind |-> kind, node |-> n, depth |-> Len(stack)]

\* A real_make that makes every source that has a producer.
IsPrunedNever(mk, prod) == FALSE

\* real_make: "if source.producer ().making: ... continue"
IsPruned(mk, prod) == mk[prod]

\* cmdline.build: env.final.make ()
StartMake(n) ==
    /\ stack = <<>>
    /\ calls < MaxCalls
    /\ Registered(n)
    /\ calls' = calls + 1
    /\ IF making[n]
       THEN \* assert not self.making
            /\ Raise("making", n)
            /\ UNCHANGED making
       ELSE /\ making' = [making EXCEPT ![n] = TRUE]
            /\ stack' = <<NewFrame(n)>>
            /\ fault' = NoFault
    /\ UNCHANGED <<disk, files, nodeVars, snapshots, failed_dep, lastRet, goodSnap,
                   snapVars, envUsed>>

TopSource == sources[Top.node][Top.i]
TopProducer == files[TopSource].producer

\* real_make: a source without producer is a leaf.
SkipLeaf ==
    /\ stack # <<>>
    /\ Top.pc = "sources"
    /\ TopProducer = NoNode
    /\ SetTop(Advance(Top))
    /\ UNCHANGED <<disk, files, nodeVars, snapshots, making, failed_dep, fault, lastRet,
                   goodSnap, snapVars, calls, envUsed>>

\* real_make: a source whose producer is being made is dropped for now.
PruneCyclic ==
    /\ stack # <<>>
    /\ Top.pc = "sources"
    /\ TopProducer # NoNode
    /\ IsPruned(making, TopProducer)
    /\ SetTop(Advance(Top))
    /\ UNCHANGED <<disk, files, nodeVars, snapshots, making, failed_dep, fault, lastRet,
                   goodSnap, snapVars, calls, envUsed>>

\* real_make: source_rv = source.producer ().make ()
CallSource ==
    /\ stack # <<>>
    /\ Top.pc = "sources"
    /\ TopProducer # NoNode
    /\ ~IsPruned(making, TopProducer)
    /\ IF making[TopProducer]
       THEN \* assert not self.making
            /\ Raise("making", TopProducer)
            /\ UNCHANGED making
       ELSE /\ making' = [making EXCEPT ![TopProducer] = TRUE]
            /\ stack' = stack \o <<NewFrame(TopProducer)>>
            /\ UNCHANGED fault
    /\ UNCHANGED <<disk, files, nodeVars, snapshots, failed_dep, lastRet, goodSnap,
                   snapVars, calls, envUsed>>

\* real_make: the sources are compared with self.snapshots; the recipe is
\* due unless every one is as recorded.  The loop runs over the sources and
\* indexes the record before it snapshots the source: a record shorter than
\* the sources is the IndexError, once every entry it has was found equal;
\* of a longer record the surplus is not looked at.
CheckSources ==
    /\ stack # <<>>
    /\ Top.pc = "check"
    /\ LET n    == Top.node
           r    == SnapshotAll(files, disk, sources[n])
           k    == IF snapshots[n] = NoneSnap THEN 0
                   ELSE IF Len(snapshots[n]) < Len(sources[n]) THEN Len(snapshots[n])
                   ELSE Len(sources[n])
           h    == SnapshotAll(files, disk, SubSeq(sources[n], 1, k))
           same == /\ snapshots[n] # NoneSnap
                   /\ h.fault = ""
                   /\ h.fps = SubSeq(snapshots[n], 1, k)
       IN  IF same /\ k < Len(sources[n])
           THEN /\ files' = h.files
                /\ Raise("index", n)
                /\ UNCHANGED snapshots
           ELSE /\ files' = r.files
                /\ IF r.fault # ""
                   THEN /\ Raise(r.fault, n)
                        /\ UNCHANGED snapshots
                   ELSE IF same
                   THEN /\ SetTop([Top EXCEPT !.pc = "return"])
                        /\ UNCHANGED <<snapshots, fault>>
                   ELSE /\ snapshots' = [snapshots EXCEPT ![n] = r.fps]
                        /\ SetTop([Top EXCEPT !.pc = "build"])
                        /\ UNCHANGED fault
    /\ UNCHANGED <<disk, nodeVars, making, failed_dep, lastRet, goodSnap, snapVars,
                   calls, envUsed>>

\* A loop that grants one round more.
NextRoundLate(f) ==
    IF f.patience < Patience
    THEN [f EXCEPT !.patience = f.patience + 1, !.rv = Changed, !.i = 1,
                   !.pc = IF sources[f.node] = <<>> THEN "check" ELSE "sources"]
    ELSE [f EXCEPT !.patience = f.patience + 1, !.rv = Error, !.pc = "return",
                   !.why = "settle", !.culprit = f.node]

\* A real_make that returns after the recipe without another round.
NextRoundReturns(f) ==
    [f EXCEPT !.patience = f.patience + 1, !.rv = Changed, !.pc = "return"]

\* real_make: the end of one round of "for patience in range (5)", and
\* what follows the last one.
NextRound(f) ==
    IF f.patience + 1 < Patience
    THEN [f EXCEPT !.patience = f.patience + 1, !.rv = Changed, !.i = 1,
                   !.pc = IF sources[f.node] = <<>> THEN "check" ELSE "sources"]
    ELSE [f EXCEPT !.patience = f.patience + 1, !.rv = Error, !.pc = "return",
                   !.why = "settle", !.culprit = f.node]

\* self.failed_dep = self, when the contents do not settle
Settle(f, fd) ==
    IF f.patience + 1 < Patience THEN fd ELSE [fd EXCEPT ![f.node] = f.node]

\* A real_make in which the LaTeXDep defers and the other nodes do not.
DefersLaTeX(n) ==
    /\ recipe[n].latex
    /\ \E p \in Range(sources[n]) : ~disk[p].exists

\* real_make: "input files for %s do not yet exist, deferring"
Defers(n) ==
    /\ ~recipe[n].latex
    /\ \E p \in Range(sources[n]) : ~disk[p].exists

Defer ==
    /\ stack # <<>>
    /\ Top.pc = "build"
    /\ Defers(Top.node)
    /\ SetTop(NextRound([Top EXCEPT !.defers = Top.defers + 1]))
    /\ failed_dep' = Settle(Top, failed_dep)
    /\ UNCHANGED <<disk, files, nodeVars, snapshots, making, fault, lastRet, goodSnap,
                   snapVars, calls, envUsed>>

\* What a successful run () of the recipe of n writes: every product.
Output(n, d) ==
    Written(d, IF recipe[n].flip /\ d.exists THEN 1 - d.content ELSE 1)

\* The run of the recipe of n that is due changes what snapshot returns for a
\* source of n: the next comparison with self.snapshots will differ.
Moves(n) ==
    \E i \in 1..Len(sources[n]) :
       LET p == sources[n][i]
       IN  /\ p \in Range(products[n])
           /\ Snapshot(files[p], Output(n, disk[p])).fp # snapshots[n][i]

\* self.run () returns True
RunOk ==
    /\ stack # <<>>
    /\ Top.pc = "build"
    /\ ~Defers(Top.node)
    /\ LET n == Top.node
       IN  /\ disk' = [p \in Paths |->
                         IF p \in Range(products[n]) THEN Output(n, disk[p]) ELSE disk[p]]
           /\ goodSnap' = [goodSnap EXCEPT ![n] = snapshots[n]]
    /\ SetTop(NextRound([Top EXCEPT !.runs = Top.runs + 1,
                                     !.work = Top.work + 1,
                                     !.moved = Top.moved + IF Moves(Top.node) THEN 1 ELSE 0]))
    /\ failed_dep' = Settle(Top, failed_dep)
    /\ UNCHANGED <<files, nodeVars, snapshots, making, fault, lastRet, snapVars, calls,
                   envUsed>>

\* self.run () returns False
RunFail ==
    /\ stack # <<>>
    /\ Top.pc = "build"
    /\ ~Defers(Top.node)
    /\ failed_dep' = [failed_dep EXCEPT ![Top.node] = Top.node]
    /\ snapshots' = [snapshots EXCEPT ![Top.node] = NoneSnap]
    /\ SetTop([Top EXCEPT !.runs = Top.runs + 1, !.work = Top.work + 1, !.rv = Error,
                          !.pc = "return", !.why = "run", !.culprit = Top.node])
    /\ UNCHANGED <<disk, files, nodeVars, making, fault, lastRet, goodSnap, snapVars,
                   calls, envUsed>>

\* self.run () is interrupted (KeyboardInterrupt while the tool runs)
RunRaise ==
    /\ stack # <<>>
    /\ Top.pc = "build"
    /\ ~Defers(Top.node)
    /\ Raise("interrupt", Top.node)
    /\ UNCHANGED <<disk, files, nodeVars, snapshots, making, failed_dep, lastRet,
                   goodSnap, snapVars, calls, envUsed>>

\* A real_make that goes on with its next source whatever make returned.
CallerGoesOn(c, f) ==
    Advance([c EXCEPT !.rv = IF f.rv = Changed THEN Changed ELSE c.rv,
                      !.work = c.work + f.work])

\* real_make after "source_rv = source.producer ().make ()": the frame c of
\* the caller once the call of frame f has returned.
Caller(c, f) ==
    IF f.rv = Error
    THEN [c EXCEPT !.rv = Error, !.pc = "return", !.why = "source",
                   !.work = c.work + f.work, !.culprit = f.culprit]
    ELSE Advance([c EXCEPT !.rv = IF f.rv = Changed THEN Changed ELSE c.rv,
                           !.work = c.work + f.work])

\* A make that leaves failed_dep alone when real_make succeeded.
AfterMakeKeeps(fd, n, rv) == fd

\* Node.make: "self.failed_dep = None" unless real_make returned ERROR.
AfterMake(fd, n, rv) ==
    IF rv = Error THEN fd ELSE [fd EXCEPT ![n] = NoNode]

\* Node.make after real_make returned, and the caller's use of the value.
MakeReturn ==
    /\ stack # <<>>
    /\ Top.pc = "return"
    /\ LET f  == Top
           n  == f.node
           ok == IF f.rv = Error THEN failed_dep[n] # NoNode
                                 ELSE snapshots[n] # NoneSnap
           fd == AfterMake(failed_dep, n, f.rv)
       IN  /\ making' = [making EXCEPT ![n] = FALSE]
           /\ IF ~ok
              THEN /\ Raise("assert", n)
                   /\ UNCHANGED <<failed_dep, lastRet>>
              ELSE /\ lastRet' = [node |-> n, rv |-> f.rv, runs |-> f.runs,
                                  defers |-> f.defers, moved |-> f.moved, why |-> f.why,
                                  built |-> \A p \in Range(products[n]) : disk[p].exists,
                                  depth |-> Len(stack) - 1, work |-> f.work,
                                  culprit |-> f.culprit]
                   /\ UNCHANGED fault
                   /\ IF Len(stack) = 1
                      THEN /\ stack' = <<>>
                           /\ failed_dep' = fd
                      ELSE LET c == Below[Len(Below)]
                               rest == SubSeq(Below, 1, Len(Below) - 1)
                           IN  /\ failed_dep' = IF f.rv = Error
                                                 THEN [fd EXCEPT ![c.node] = fd[n]]
                                                 ELSE fd
                               /\ stack' = rest \o <<Caller(c, f)>>
    /\ UNCHANGED <<disk, files, nodeVars, snapshots, goodSnap, snapVars, calls, envUsed>>

\* ------------------------------------------------------------- the cache

RECURSIVE recOnPath(_, _, _, _), recSourcesOnPath(_, _, _, _, _)
recOnPath(srcs, fbp, node, seen) ==
    <<node>> \o recSourcesOnPath(srcs, fbp, node, 1, seen \cup {node})
recSourcesOnPath(srcs, fbp, node, i, seen) ==
    IF i > Len(srcs[node])
    THEN <<>>
    ELSE LET child == fbp[srcs[node][i]].producer
         IN  (IF child # NoNode /\ child \notin seen
              THEN recOnPath(srcs, fbp, child, seen)
              ELSE <<>>)
             \o recSourcesOnPath(srcs, fbp, node, i + 1, seen)

\* A traversal that only remembers the nodes on the way down from the root.
all_producersOnPath(srcs, fbp, root) == recOnPath(srcs, fbp, root, {})

\* Node.all_producers, the generator rec: node is yielded, then the
\* producers of its sources that are not in seen, in the order of the
\* sources; seen is shared by all the calls.
RECURSIVE rec(_, _, _, _), recSources(_, _, _, _, _)
rec(srcs, fbp, node, seen) ==
    LET r == recSources(srcs, fbp, node, 1, seen \cup {node})
    IN  [order |-> <<node>> \o r.order, seen |-> r.seen]
recSources(srcs, fbp, node, i, seen) ==
    IF i > Len(srcs[node])
    THEN [order |-> <<>>, seen |-> seen]
    ELSE LET child == fbp[srcs[node][i]].producer
         IN  IF child # NoNode /\ child \notin seen
             THEN LET c    == rec(srcs, fbp, child, seen)
                      rest == recSources(srcs, fbp, node, i + 1, c.seen)
                  IN  [order |-> c.order \o rest.order, seen |-> rest.seen]
             ELSE recSources(srcs, fbp, node, i + 1, seen)

\* Node.all_producers: the nodes in the order they are yielded.
all_producers(srcs, fbp, root) == rec(srcs, fbp, root, {}).order

\* save_cache: the lines written for one source of a node.
SourceLine(fp, path) == <<" ", " ">> \o cs2str(fp).text \o <<" ", path, "\n">>

\* save_cache: the lines written for node, none when it has no snapshots.
NodeLines(node, snaps, prods, srcs) ==
    IF snaps[node] = NoneSnap
    THEN <<>>
    ELSE <<<<prods[node][1], "\n">>>>
         \o [i \in 1..Len(srcs[node]) |-> SourceLine(snaps[node][i], srcs[node][i])]

\* save_cache: the text written for the nodes of order.
RECURSIVE SaveLines(_, _, _, _)
SaveLines(order, snaps, prods, srcs) ==
    IF order = <<>>
    THEN <<>>
    ELSE NodeLines(Head(order), snaps, prods, srcs)
         \o SaveLines(Tail(order), snaps, prods, srcs)

\* line.startswith ('  ')
IsSourceLine(line) == Len(line) >= 2 /\ line[1] = " " /\ line[2] = " "

\* line [a:b] of Python, a and b counted from 0, b possibly negative.
Slice(line, a, b) ==
    LET e == IF b < 0 THEN Len(line) + b ELSE IF b > Len(line) THEN Len(line) ELSE b
    IN  IF a >= e THEN <<>> ELSE SubSeq(line, a + 1, e)

\* The path that a text names; the paths of the model have one character,
\* any other text names a file that no node knows.
PathOf(text) == IF Len(text) = 1 THEN text[1] ELSE "?"

\* load_cache, the inner loop: the source lines that follow line j - 1.
RECURSIVE ReadSources(_, _)
ReadSources(lines, j) ==
    IF j > Len(lines) \/ ~IsSourceLine(lines[j])
    THEN [next |-> j, snapshots |-> <<>>, sources |-> <<>>, fault |-> ""]
    ELSE LET limit == 2 + cs_str_len
             cs    == str2cs(Slice(lines[j], 2, limit))
             rest  == ReadSources(lines, j + 1)
         IN  IF cs.fault # ""
             THEN [next |-> j, snapshots |-> <<>>, sources |-> <<>>, fault |-> cs.fault]
             ELSE [next      |-> rest.next,
                   snapshots |-> <<cs.cs>> \o rest.snapshots,
                   sources   |-> <<PathOf(Slice(lines[j], limit + 1, -1))>> \o rest.sources,
                   fault     |-> rest.fault]

\* A load_cache that installs the entry of every product that has a producer.
RECURSIVE LoadEntriesAnySources(_, _, _, _, _)
LoadEntriesAnySources(lines, i, snaps, fbp, srcs) ==
    IF i > Len(lines)
    THEN [snapshots |-> snaps, files |-> fbp, fault |-> ""]
    ELSE LET product == PathOf(Slice(lines[i], 0, -1))
             r       == ReadSources(lines, i + 1)
             fbp2    == IF product \in Paths THEN Factory(fbp, product) ELSE fbp
             node    == IF product \in Paths THEN fbp2[product].producer ELSE NoNode
         IN  IF r.fault # ""
             THEN [snapshots |-> snaps, files |-> fbp, fault |-> r.fault]
             ELSE LoadEntriesAnySources(lines, r.next,
                      IF node = NoNode \/ snaps[node] # NoneSnap
                      THEN snaps
                      ELSE [snaps EXCEPT ![node] = r.snapshots],
                      fbp2, srcs)

\* load_cache, the outer loop from line i on: snaps and fbp are the
\* snapshots of the nodes and the _File instances so far; fault is the
\* exception that str2cs raised, if any.
RECURSIVE LoadEntries(_, _, _, _, _)
LoadEntries(lines, i, snaps, fbp, srcs) ==
    IF i > Len(lines)
    THEN [snapshots |-> snaps, files |-> fbp, fault |-> ""]
    ELSE LET product == PathOf(Slice(lines[i], 0, -1))
             r       == ReadSources(lines, i + 1)
             fbp2    == IF product \in Paths THEN Factory(fbp, product) ELSE fbp
             node    == IF product \in Paths THEN fbp2[product].producer ELSE NoNode
         IN  IF r.fault # ""
             THEN [snapshots |-> snaps, files |-> fbp, fault |-> r.fault]
             ELSE LoadEntries(lines, r.next,
                      IF \/ node = NoNode
                         \/ srcs[node] # r.sources
                         \/ snaps[node] # NoneSnap
                      THEN snaps
                      ELSE [snaps EXCEPT ![node] = r.snapshots],
                      fbp2, srcs)

\* save_cache (cache_path, final) with node n as final.
SaveCache(n) ==
    /\ stack = <<>>
    /\ Registered(n)
    /\ ~session.saved
    /\ cache' = [exists |-> TRUE,
                 lines  |-> SaveLines(all_producers(sources, files, n),
                                      snapshots, products, sources)]
    /\ session' = [session EXCEPT
                     !.saved = TRUE, !.root = n, !.snapshots = snapshots,
                     !.sources = sources, !.disk = disk, !.damaged = FALSE,
                     !.afterMake = /\ fault = NoFault
                                   /\ lastRet.node = n
                                   /\ lastRet.depth = 0
                                   /\ lastRet.rv # Error]
    /\ UNCHANGED <<disk, files, sources, products, recipe, edits, makeVars, snapVars, envUsed,
                   toolVars>>

\* load_cache (cache_path); open raises when there is no such file.
LoadCache ==
    /\ stack = <<>>
    /\ session.loaded = ""
    /\ LET r == IF cache.exists
                THEN LoadEntries(cache.lines, 1, snapshots, files, sources)
                ELSE [snapshots |-> snapshots, files |-> files,
                      fault |-> "FileNotFoundError"]
       IN  /\ snapshots' = r.snapshots
           /\ files' = r.files
           /\ session' = [session EXCEPT
                            !.loaded = IF r.fault = "" THEN "ok" ELSE r.fault,
                            !.loadCalls = calls,
                            !.before = snapshots,
                            !.found = disk]
    /\ UNCHANGED <<disk, sources, products, recipe, edits, cache, making, failed_dep, stack,
                   fault, lastRet, goodSnap, calls, snapVars, envUsed, toolVars>>

\* The process ends and the program is started again: the nodes of some
\* graph are constructed anew; only the external files and the cache file
\* are left of the former process.
NewProcess ==
    /\ stack = <<>>
    /\ session.saved
    /\ session.proc < MaxProcs
    /\ \E g \in Graphs :
         \* the document is rewritten, or its files or the cache file are altered
         /\ g.sources # sources => ~session.damaged /\ envUsed = 0
         /\ sources' = g.sources
         /\ products' = g.products
         /\ files' = InitFiles(g)
    /\ snapshots' = [n \in Nodes |-> NoneSnap]
    /\ making' = [n \in Nodes |-> FALSE]
    /\ failed_dep' = [n \in Nodes |-> NoNode]
    /\ fault' = NoFault
    /\ lastRet' = NoRet
    /\ goodSnap' = [n \in Nodes |-> NoneSnap]
    /\ calls' = 0
    /\ session' = [session EXCEPT !.proc = session.proc + 1, !.loaded = "",
                                  !.loadCalls = 0, !.before = <<>>, !.found = <<>>]
    /\ UNCHANGED <<disk, recipe, edits, cache, stack, snapVars, envUsed, toolVars>>

\* Where a line of the cache file may be cut short: before it, within a
\* product path or the indentation, within a checksum, before the newline.
Cuts == {0, 1, 20, 36}
\* The lines that are cut or overwritten: the second and the last one.
DamagedLines(lines) == {2, Len(lines)} \cap (1..Len(lines))

\* The cache file is removed.
CacheRemove ==
    /\ cache' = NoCache

\* The cache file is cut short within its line i.
CacheTruncate ==
    \E i \in DamagedLines(cache.lines), k \in Cuts :
       /\ k < Len(cache.lines[i])
       /\ cache' = [cache EXCEPT !.lines =
                       SubSeq(cache.lines, 1, i - 1)
                       \o (IF k = 0 THEN <<>> ELSE <<SubSeq(cache.lines[i], 1, k)>>)]

\* The first character of a checksum in the cache file is overwritten.
CacheGarble ==
    \E i \in DamagedLines(cache.lines), ch \in {"Z", " "} :
       /\ IsSourceLine(cache.lines[i])
       /\ cache.lines[i][3] # ch
       /\ cache' = [cache EXCEPT !.lines[i][3] = ch]

\* Something else than rubber alters the cache file once the first process
\* has written it.
CacheDamage ==
    /\ stack = <<>>
    /\ cache.exists
    /\ session.proc = NoSession.proc
    /\ envUsed = 0
    /\ ~session.damaged
    /\ CacheRemove \/ CacheTruncate \/ CacheGarble
    /\ session' = [session EXCEPT !.damaged = TRUE]
    /\ UNCHANGED <<disk, files, sources, products, recipe, edits, makeVars, snapVars, envUsed,
                   toolVars>>

\* Files are edited, rewritten or removed once the first process has
\* written the cache file; nobody sets a modification time back.
CacheEnv ==
    /\ stack = <<>>
    /\ session.saved
    /\ session.proc = NoSession.proc
    /\ ~session.damaged
    /\ \E p \in Paths :
         \/ EnvEdit(p, MaxCacheEnv)
         \/ EnvTouch(p, MaxCacheEnv)
         \/ EnvRemove(p, MaxCacheEnv)
    /\ UNCHANGED <<files, nodeVars, makeVars, snapVars>>

\* ----------------------------------------------------------- specifications

\* The steps of the running make call.
Step ==
    \/ SkipLeaf
    \/ PruneCyclic
    \/ CallSource
    \/ CheckSources
    \/ Defer
    \/ RunOk
    \/ RunFail
    \/ RunRaise
    \/ MakeReturn

\* Files change under the engine between two builds.
Quiet == stack = <<>>

Env(max) ==
    /\ \E p \in Paths :
         \/ EnvEdit(p, max)
         \/ EnvTouch(p, max)
         \/ EnvRemove(p, max)
         \/ EnvBackdate(p, max)
    /\ UNCHANGED <<files, nodeVars, makeVars, snapVars>>

Next ==
    \/ \E n \in Nodes : StartMake(n)
    \/ Step
    \/ Quiet /\ Env(MaxEnv)

Spec == Init /\ [][Next]_vars

\* Every step of a make call is taken eventually: Python runs it, and every
\* recipe run ends.
FairSpec == Spec /\ WF_vars(Step)

\* The snapshot store alone: no node is registered, no _File exists yet.
SnapInit ==
    /\ disk \in [Paths -> [exists : BOOLEAN, mtime : {0}, content : {0}]]
    /\ files = <<>>
    /\ sources = [n \in Nodes |-> <<>>]
    /\ products = [n \in Nodes |-> <<>>]
    /\ recipe = [n \in Nodes |-> [latex |-> FALSE, flip |-> FALSE]]
    /\ snapshots = [n \in Nodes |-> NoneSnap]
    /\ making = [n \in Nodes |-> FALSE]
    /\ failed_dep = [n \in Nodes |-> NoNode]
    /\ stack = <<>>
    /\ fault = NoFault
    /\ edits = 0
    /\ lastRet = NoRet
    /\ goodSnap = [n \in Nodes |-> NoneSnap]
    /\ lastSnap = NoSnap
    /\ obs = [p \in Paths |-> NoObs]
    /\ calls = 0
    /\ envUsed = 0
    /\ cache = NoCache
    /\ session = NoSession
    /\ driver = NoDriver
    /\ codec = NoCodec
    /\ parser = NoParser
    /\ logcheck = NoLogCheck
    /\ compiler = NoCompiler

SnapNext ==
    \/ \E p \in Paths : SnapshotCall(p)
    \/ Env(MaxSnapEnv)

SnapSpec == SnapInit /\ [][SnapNext]_vars

\* The steps of a make call whose recipes all succeed.
CacheStep ==
    \/ SkipLeaf
    \/ PruneCyclic
    \/ CallSource
    \/ CheckSources
    \/ Defer
    \/ RunOk
    \/ MakeReturn

\* --------------------------------------------------- the report of build

\* Number of diagnostics that get_errors yields.
MaxErrors == 3
\* Highest value of the option --maxerr.
MaxCap == 3
\* cmd_info.Info sets max_errors to -1.
MinCap == -1

\* A loop that stops at a counter that is zero or below.
CapReachedOrBelow(number) == number <= 0

\* build: "if number == 0"
CapReached(number) == number = 0

\* build: "if ret == ERROR: ... number = self.max_errors"
BuildReport ==
    /\ driver.pc = "returned"
    /\ driver' = IF driver.ret = Error
                 THEN [driver EXCEPT !.pc = "loop", !.number = driver.max_errors, !.pos = 1]
                 ELSE [driver EXCEPT !.pc = "done"]

\* build: "display (self.short, **err); number -= 1"
DisplayError ==
    /\ driver.pc = "loop"
    /\ driver.pos <= Len(driver.errs)
    /\ ~CapReached(driver.number)
    /\ driver' = [driver EXCEPT !.shown = Append(driver.shown, driver.errs[driver.pos]),
                                !.number = driver.number - 1,
                                !.pos = driver.pos + 1]

\* build: "msg.info (_("More errors.")); break"
MoreErrors ==
    /\ driver.pc = "loop"
    /\ driver.pos <= Len(driver.errs)
    /\ CapReached(driver.number)
    /\ driver' = [driver EXCEPT !.more = TRUE, !.pc = "raise"]

\* build: get_errors is exhausted; "raise rubber.GenericError (...)"
EndOfErrors ==
    /\ driver.pc = "loop"
    /\ driver.pos > Len(driver.errs)
    /\ driver' = [driver EXCEPT !.pc = "raise"]

\* make has returned ret to build; the node that failed has the
\* diagnostics errs, numbered in the order get_errors yields them.
DriverInit ==
    /\ disk = [p \in Paths |-> [exists |-> FALSE, mtime |-> 0, content |-> 0]]
    /\ files = <<>>
    /\ sources = [n \in Nodes |-> <<>>]
    /\ products = [n \in Nodes |-> <<>>]
    /\ recipe = [n \in Nodes |-> [latex |-> FALSE, flip |-> FALSE]]
    /\ snapshots = [n \in Nodes |-> NoneSnap]
    /\ making = [n \in Nodes |-> FALSE]
    /\ failed_dep = [n \in Nodes |-> NoNode]
    /\ stack = <<>>
    /\ fault = NoFault
    /\ edits = 0
    /\ lastRet = NoRet
    /\ goodSnap = [n \in Nodes |-> NoneSnap]
    /\ lastSnap = NoSnap
    /\ obs = [p \in Paths |-> NoObs]
    /\ calls = 0
    /\ envUsed = 0
    /\ cache = NoCache
    /\ session = NoSession
    /\ codec = NoCodec
    /\ parser = NoParser
    /\ logcheck = NoLogCheck
    /\ compiler = NoCompiler
    /\ \E k \in 0..MaxErrors, cap \in MinCap..MaxCap, ret \in {Error, Unchanged, Changed} :
         driver = [NoDriver EXCEPT !.pc = "returned", !.ret = ret,
                                   !.errs = [i \in 1..k |-> i], !.max_errors = cap]

\* What no step of build changes.
driverRest ==
    <<disk, files, sources, products, recipe, edits, cacheVars, codec, parser, logcheck, compiler,
      makeVars, snapVars, envUsed>>

DriverNext ==
    \/ BuildReport /\ UNCHANGED driverRest
    \/ DisplayError /\ UNCHANGED driverRest
    \/ MoreErrors /\ UNCHANGED driverRest
    \/ EndOfErrors /\ UNCHANGED driverRest

DriverSpec == DriverInit /\ [][DriverNext]_vars

\* ------------------------------------------------ checksums written and read

\* The bytes that the digests of CodecSpec are made of.
Bytes == {0, 9, 10, 15, 16, 127, 128, 255}

\* NO_SUCH_FILE, and the digests whose bytes are alternately x and y.
Checksums ==
    {NO_SUCH_FILE}
    \cup {[i \in 1..DigestLen |-> IF i % 2 = 1 THEN x ELSE y] : x, y \in Bytes}

\* cs2str (checksum), as save_cache calls it
Encode ==
    /\ codec.pc = "given"
    /\ codec' = [codec EXCEPT !.pc = "written",
                              !.text = cs2str(codec.checksum).text,
                              !.fault = cs2str(codec.checksum).fault]

\* str2cs (text), as load_cache calls it
Decode ==
    /\ codec.pc = "written"
    /\ codec.fault = ""
    /\ codec' = [codec EXCEPT !.pc = "read",
                              !.back = str2cs(codec.text).cs,
                              !.fault = str2cs(codec.text).fault]

CodecInit ==
    /\ disk = [p \in Paths |-> [exists |-> FALSE, mtime |-> 0, content |-> 0]]
    /\ files = <<>>
    /\ sources = [n \in Nodes |-> <<>>]
    /\ products = [n \in Nodes |-> <<>>]
    /\ recipe = [n \in Nodes |-> [latex |-> FALSE, flip |-> FALSE]]
    /\ snapshots = [n \in Nodes |-> NoneSnap]
    /\ making = [n \in Nodes |-> FALSE]
    /\ failed_dep = [n \in Nodes |-> NoNode]
    /\ stack = <<>>
    /\ fault = NoFault
    /\ edits = 0
    /\ lastRet = NoRet
    /\ goodSnap = [n \in Nodes |-> NoneSnap]
    /\ lastSnap = NoSnap
    /\ obs = [p \in Paths |-> NoObs]
    /\ calls = 0
    /\ envUsed = 0
    /\ cache = NoCache
    /\ session = NoSession
    /\ driver = NoDriver
    /\ parser = NoParser
    /\ logcheck = NoLogCheck
    /\ compiler = NoCompiler
    /\ \E c \in Checksums : codec = [NoCodec EXCEPT !.pc = "given", !.checksum = c]

\* What neither cs2str nor str2cs changes.
codecRest ==
    <<disk, files, sources, products, recipe, edits, cacheVars, driver, parser, logcheck, compiler,
      makeVars, snapVars, envUsed>>

CodecNext ==
    \/ Encode /\ UNCHANGED codecRest
    \/ Decode /\ UNCHANGED codecRest

CodecSpec == CodecInit /\ [][CodecNext]_vars

\* Builds of successive processes that share the files and the cache file.
\* The recipes are deterministic; node 1 is a LaTeXDep or not.
CacheInit ==
    /\ \E g \in Graphs :
         /\ sources = g.sources
         /\ products = g.products
         /\ files = InitFiles(g)
    /\ \E l \in BOOLEAN :
         recipe = [n \in Nodes |-> [latex |-> l /\ n = 1, flip |-> FALSE]]
    /\ \E e \in BOOLEAN :
         disk = [p \in Paths |-> [exists |-> e /\ files[p].producer = NoNode,
                                  mtime |-> 0, content |-> 0]]
    /\ snapshots = [n \in Nodes |-> NoneSnap]
    /\ making = [n \in Nodes |-> FALSE]
    /\ failed_dep = [n \in Nodes |-> NoNode]
    /\ stack = <<>>
    /\ fault = NoFault
    /\ edits = 0
    /\ lastRet = NoRet
    /\ goodSnap = [n \in Nodes |-> NoneSnap]
    /\ lastSnap = NoSnap
    /\ obs = [p \in Paths |-> NoObs]
    /\ calls = 0
    /\ envUsed = 0
    /\ cache = NoCache
    /\ session = NoSession
    /\ driver = NoDriver
    /\ codec = NoCodec
    /\ parser = NoParser
    /\ logcheck = NoLogCheck
    /\ compiler = NoCompiler

CacheNext ==
    \/ \E n \in Nodes : calls < MaxCacheCalls /\ StartMake(n)
    \/ CacheStep
    \/ \E n \in Nodes : SaveCache(n)
    \/ LoadCache
    \/ NewProcess
    \/ CacheDamage
    \/ CacheEnv

CacheSpec == CacheInit /\ [][CacheNext]_vars

\* -------------------------------------------------- the log of the compiler

\* line.startswith (lit), line [:len (lit)] == lit
StartsWith(line, lit) ==
    Len(line) >= Len(lit) /\ SubSeq(line, 1, Len(lit)) = lit

\* lit is in line from the character i on, i counted from 1.
StartsAt(line, i, lit) ==
    /\ i >= 1
    /\ i + Len(lit) - 1 <= Len(line)
    /\ SubSeq(line, i, i + Len(lit) - 1) = lit

\* line.find (lit), counted from 1: 0 where Python answers -1.
Find(line, lit) ==
    IF \E i \in 1..Len(line) + 1 : StartsAt(line, i, lit)
    THEN CHOOSE i \in 1..Len(line) + 1 :
             /\ StartsAt(line, i, lit)
             /\ \A j \in 1..i - 1 : ~StartsAt(line, j, lit)
    ELSE 0

\* The last place of lit in line that is not before from; 0 if there is none.
FindLast(line, lit, from) ==
    IF \E i \in from..Len(line) + 1 : StartsAt(line, i, lit)
    THEN CHOOSE i \in from..Len(line) + 1 :
             /\ StartsAt(line, i, lit)
             /\ \A j \in i + 1..Len(line) + 1 : ~StartsAt(line, j, lit)
    ELSE 0

IsDigit(ch) == ch \in {"0", "1", "2", "3", "4", "5", "6", "7", "8", "9"}

\* [0-9]*, greedy: the number of digits of line from the character i on.
RECURSIVE Digits(_, _)
Digits(line, i) ==
    IF i >= 1 /\ i <= Len(line) /\ IsDigit(line[i]) THEN 1 + Digits(line, i + 1) ELSE 0

\* int (text) of a text of digits.
RECURSIVE Int10(_)
Int10(text) ==
    IF text = <<>> THEN 0
    ELSE 10 * Int10(SubSeq(text, 1, Len(text) - 1)) + HexVal(text[Len(text)])

\* text.strip ()
RECURSIVE Strip(_)
Strip(text) ==
    IF text = <<>> THEN text
    ELSE IF IsSpace(text[1]) THEN Strip(Tail(text))
    ELSE IF IsSpace(text[Len(text)]) THEN Strip(SubSeq(text, 1, Len(text) - 1))
    ELSE text

\* " ".join (texts)
RECURSIVE Join(_)
Join(texts) ==
    IF texts = <<>> THEN <<>>
    ELSE IF Len(texts) = 1 THEN texts[1]
    ELSE texts[1] \o <<" ">> \o Join(Tail(texts))

\* text.ljust (width)
Ljust(text, width) ==
    IF Len(text) >= width THEN text ELSE text \o Spaces(width - Len(text))

TextL ==
    <<"l", ".">>
TextStar ==
    <<"<", "*", ">">>

\* re_line.match (line): "l." and a number, then the end of the line or a
\* space and the code; or "<*>", which sets neither group.
\* re_line = (l\.(?P<line>[0-9]+)( (?P<code>.*))?$|<\*>)
re_line(line) ==
    LET n == Digits(line, 3)
    IN  IF StartsWith(line, TextL) /\ n > 0 /\ (3 + n > Len(line) \/ line[3 + n] = " ")
        THEN [matched |-> TRUE,
              line    |-> SubSeq(line, 3, 2 + n),
              code    |-> IF 3 + n > Len(line) THEN NoneText
                          ELSE SubSeq(line, 4 + n, Len(line))]
        ELSE [matched |-> StartsWith(line, TextStar), line |-> NoneText, code |-> NoneText]

TextDots ==
    <<".", ".", ".">>

\* A match of (\\|\.\.\.)[^ ]* ?$ begins at the character s of line.
CseqAt(line, s) ==
    LET t == IF StartsAt(line, s, <<"\\">>) THEN s + 1
             ELSE IF StartsAt(line, s, TextDots) THEN s + 3
             ELSE 0
    IN  t > 0 /\ \A k \in t..Len(line) - 1 : line[k] # " "

\* The end of the group seq of that match: the space that may end the line
\* is not part of it.
CseqEnd(line, s) ==
    LET t == IF line[s] = "\\" THEN s + 1 ELSE s + 3
    IN  IF Len(line) >= t /\ line[Len(line)] = " " THEN Len(line) - 1 ELSE Len(line)

\* re_cseq.match (line): ".*" is greedy, the match of the group is the one
\* that begins last.  re_cseq = .*(?P<seq>(\\|\.\.\.)[^ ]*) ?$
re_cseqFirst(line) ==
    IF \E s \in 1..Len(line) : CseqAt(line, s)
    THEN LET s == CHOOSE s \in 1..Len(line) :
                      CseqAt(line, s) /\ \A r \in 1..s - 1 : ~CseqAt(line, r)
         IN  [matched |-> TRUE, seq |-> SubSeq(line, s, CseqEnd(line, s))]
    ELSE [matched |-> FALSE, seq |-> NoneText]
re_cseq(line) ==
    IF \E s \in 1..Len(line) : CseqAt(line, s)
    THEN LET s == CHOOSE s \in 1..Len(line) :
                      CseqAt(line, s) /\ \A r \in s + 1..Len(line) : ~CseqAt(line, r)
         IN  [matched |-> TRUE, seq |-> SubSeq(line, s, CseqEnd(line, s))]
    ELSE [matched |-> FALSE, seq |-> NoneText]

TextArrow ==
    <<" ", "-", ">">>

\* re_macro.match (line).  re_macro = ^(?P<macro>\\.*) ->
re_macro(line) ==
    LET k == FindLast(line, TextArrow, 2)
    IN  IF StartsWith(line, <<"\\">>) /\ k > 0
        THEN [matched |-> TRUE, macro |-> SubSeq(line, 1, k - 1)]
        ELSE [matched |-> FALSE, macro |-> NoneText]

TextIgnored ==
    <<";", " ", "a", "l", "l", " ", "t", "e", "x", "t", " ", "w", "a", "s", " ", "i",
      "g", "n", "o", "r", "e", "d", " ", "a", "f", "t", "e", "r", " ", "l", "i", "n",
      "e", " ">>

\* The pattern of re_ignored matches text from the character p on: the
\* literal, digits, one more character, the end.
IgnoredAt(text, p) ==
    LET r == p + Len(TextIgnored)
    IN  /\ StartsAt(text, p, TextIgnored)
        /\ r <= Len(text)
        /\ \A k \in r..Len(text) - 1 : IsDigit(text[k])

\* re_ignored.search (text).
\* re_ignored = ; all text was ignored after line (?P<line>[0-9]*).$
re_ignored(text) ==
    IF \E p \in 1..Len(text) : IgnoredAt(text, p)
    THEN LET p == CHOOSE p \in 1..Len(text) :
                      IgnoredAt(text, p) /\ \A q \in 1..p - 1 : ~IgnoredAt(text, q)
         IN  [matched |-> TRUE,
              line    |-> SubSeq(text, p + Len(TextIgnored), Len(text) - 1)]
    ELSE [matched |-> FALSE, line |-> NoneText]

TextPdfTeX ==
    <<"p", "d", "f", "T", "e", "X", " ", "w", "a", "r", "n", "i", "n", "g">>
TextStars ==
    <<"*", "*", "*">>
TextTypeX ==
    <<"T", "y", "p", "e", " ", "X", " ", "t", "o", " ", "q", "u", "i", "t", " ">>
TextRunaway ==
    <<"R", "u", "n", "a", "w", "a", "y", " ", "a", "r", "g", "u", "m", "e", "n", "t",
      "?">>
TextWritten ==
    <<"O", "u", "t", "p", "u", "t", " ", "w", "r", "i", "t", "t", "e", "n", " ", "o",
      "n">>
TextMissing ==
    <<"M", "i", "s", "s", "i", "n", "g", " ", "c", "h", "a", "r", "a", "c", "t", "e",
      "r", ":", " ">>
TextReported ==
    <<";", " ", "r", "e", "p", "o", "r", "t", "e", "d">>
TextOnLine ==
    <<" ", "o", "n", " ", "i", "n", "p", "u", "t", " ", "l", "i", "n", "e", " ">>

\* re_online.search (text): the place of the first match, the place after
\* it, and the group line.
\* re_online = (; reported)? on input line (?P<line>[0-9]*)
OnlineAt(text, p) ==
    StartsAt(text, p, TextReported \o TextOnLine) \/ StartsAt(text, p, TextOnLine)
re_online(text) ==
    IF \E p \in 1..Len(text) : OnlineAt(text, p)
    THEN LET p == CHOOSE p \in 1..Len(text) :
                      OnlineAt(text, p) /\ \A q \in 1..p - 1 : ~OnlineAt(text, q)
             d == IF StartsAt(text, p, TextReported \o TextOnLine)
                  THEN p + Len(TextReported) + Len(TextOnLine)
                  ELSE p + Len(TextOnLine)
             n == Digits(text, d)
         IN  [matched |-> TRUE, start |-> p, end |-> d + n,
              line |-> SubSeq(text, d, d + n - 1)]
    ELSE [matched |-> FALSE, start |-> 0, end |-> 0, line |-> NoneText]

TextReference ==
    <<"L", "a", "T", "e", "X", " ", "W", "a", "r", "n", "i", "n", "g", ":", " ", "R",
      "e", "f", "e", "r", "e", "n", "c", "e", " ", Grave>>
TextOnPage ==
    <<"'", " ", "o", "n", " ", "p", "a", "g", "e", " ">>
TextUndefinedOn ==
    <<" ", "u", "n", "d", "e", "f", "i", "n", "e", "d", " ", "o", "n", " ", "i", "n",
      "p", "u", "t", " ", "l", "i", "n", "e", " ">>

\* The rest of re_reference matches line from the character k on, where
\* the group ref ends.
ReferenceAt(line, k) ==
    LET p == k + Len(TextOnPage)
        u == p + Digits(line, p)
        l == u + Len(TextUndefinedOn)
        e == l + Digits(line, l)
    IN  /\ StartsAt(line, k, TextOnPage)
        /\ StartsAt(line, u, TextUndefinedOn)
        /\ e = Len(line)
        /\ line[e] = "."

\* re_reference.match (line).  re_reference = LaTeX Warning: Reference
\* `(?P<ref>.*)' on page (?P<page>[0-9]*) undefined on input line (?P<line>[0-9]*)\.$
re_reference(line) ==
    LET from == Len(TextReference) + 1
    IN  IF StartsWith(line, TextReference)
           /\ \E k \in from..Len(line) : ReferenceAt(line, k)
        THEN LET k == CHOOSE k \in from..Len(line) :
                          /\ ReferenceAt(line, k)
                          /\ \A j \in k + 1..Len(line) : ~ReferenceAt(line, j)
                 p == k + Len(TextOnPage)
                 u == p + Digits(line, p)
                 l == u + Len(TextUndefinedOn)
             IN  [matched |-> TRUE,
                  ref     |-> SubSeq(line, from, k - 1),
                  page    |-> SubSeq(line, p, u - 1),
                  line    |-> SubSeq(line, l, Len(line) - 1)]
        ELSE [matched |-> FALSE, ref |-> NoneText, page |-> NoneText, line |-> NoneText]

TextLabel ==
    <<"L", "a", "T", "e", "X", " ", "W", "a", "r", "n", "i", "n", "g", ":", " ", "L",
      "a", "b", "e", "l", " ">>
TextLaTeXWarning ==
    <<"L", "a", "T", "e", "X", " ", "W", "a", "r", "n", "i", "n", "g", ":", " ">>

\* re_label.match (line).  re_label = LaTeX Warning: (?P<text>Label .*)$
re_label(line) ==
    IF StartsWith(line, TextLabel)
    THEN [matched |-> TRUE, text |-> SubSeq(line, Len(TextLaTeXWarning) + 1, Len(line))]
    ELSE [matched |-> FALSE, text |-> NoneText]

TextWarning ==
    <<"W", "a", "r", "n", "i", "n", "g">>
TextSpWarning ==
    <<" ", "W", "a", "r", "n", "i", "n", "g", ":", " ">>
TextLaTeX ==
    <<"L", "a", "T", "e", "X">>
TextPackage ==
    <<"P", "a", "c", "k", "a", "g", "e">>

\* re_warning.match (line); start is m.start ("text"), counted from 0.  The
\* group pkg is tried first and is greedy: it ends at the last " Warning: ".
\* re_warning = (LaTeX|Package)( (?P<pkg>.*))? Warning: (?P<text>.*)$
re_warning(line) ==
    LET h == IF StartsWith(line, TextLaTeX) THEN Len(TextLaTeX)
             ELSE IF StartsWith(line, TextPackage) THEN Len(TextPackage)
             ELSE 0
        k == FindLast(line, TextSpWarning, h + 2)
        t == Len(TextSpWarning)
    IN  IF h > 0 /\ StartsAt(line, h + 1, <<" ">>) /\ k > 0
        THEN [matched |-> TRUE,
              pkg     |-> SubSeq(line, h + 2, k - 1),
              text    |-> SubSeq(line, k + t, Len(line)),
              start   |-> k + t - 1]
        ELSE IF h > 0 /\ StartsAt(line, h + 1, TextSpWarning)
        THEN [matched |-> TRUE,
              pkg     |-> NoneText,
              text    |-> SubSeq(line, h + 1 + t, Len(line)),
              start   |-> h + t]
        ELSE [matched |-> FALSE, pkg |-> NoneText, text |-> NoneText, start |-> 0]

TextOverfull ==
    <<"O", "v", "e", "r", "f", "u", "l", "l", " ", "\\">>
TextUnderfull ==
    <<"U", "n", "d", "e", "r", "f", "u", "l", "l", " ", "\\">>
TextHbox ==
    <<"h", "b", "o", "x", " ">>
TextVbox ==
    <<"v", "b", "o", "x", " ">>
TextHboxPar ==
    <<"\\", "h", "b", "o", "x", "(">>
TextVboxPar ==
    <<"\\", "v", "b", "o", "x", "(">>
TextDetected ==
    <<" ", "d", "e", "t", "e", "c", "t", "e", "d">>
TextInParagraph ==
    <<" ", "i", "n", " ", "p", "a", "r", "a", "g", "r", "a", "p", "h">>
TextAtLine ==
    <<" ", "a", "t", " ", "l", "i", "n", "e">>

\* re_badbox.match (line).  re_badbox = (Ov|Und)erfull \\[hv]box
re_badbox(line) ==
    \E head \in {TextOverfull, TextUnderfull}, box \in {TextHbox, TextVbox} :
        StartsWith(line, head \o box)

\* re_rawbox.match (line).  re_rawbox = ^\\[hv]box\(
re_rawbox(line) == StartsWith(line, TextHboxPar) \/ StartsWith(line, TextVboxPar)

\* " at line", "s" or not, and a space are in line from the character p on:
\* the place of the group line, 0 if they are not.
AtLineNumber(line, p) ==
    IF ~StartsAt(line, p, TextAtLine) THEN 0
    ELSE LET q == p + Len(TextAtLine)
         IN  IF StartsAt(line, q, <<"s", " ">>) THEN q + 2
             ELSE IF StartsAt(line, q, <<" ">>) THEN q + 1
             ELSE 0

\* The place of the group line of the match of re_atline that begins at the
\* character p, 0 if none begins there.
AtLineAt(line, p) ==
    IF StartsAt(line, p, TextDetected)
       /\ AtLineNumber(line, p + Len(TextDetected)) > 0
    THEN AtLineNumber(line, p + Len(TextDetected))
    ELSE IF StartsAt(line, p, TextInParagraph)
       /\ AtLineNumber(line, p + Len(TextInParagraph)) > 0
    THEN AtLineNumber(line, p + Len(TextInParagraph))
    ELSE AtLineNumber(line, p)

\* re_atline.search (line); start is m.start (), counted from 0.  re_atline =
\* ( detected| in paragraph)? at lines? (?P<line>[0-9]*)(--(?P<last>[0-9]*))?
re_atline(line) ==
    IF \E p \in 1..Len(line) : AtLineAt(line, p) > 0
    THEN LET p == CHOOSE p \in 1..Len(line) :
                      AtLineAt(line, p) > 0 /\ \A q \in 1..p - 1 : AtLineAt(line, q) = 0
             d == AtLineAt(line, p)
             n == Digits(line, d)
             r == d + n + 2
         IN  [matched |-> TRUE,
              start   |-> p - 1,
              line    |-> SubSeq(line, d, d + n - 1),
              last    |-> IF StartsAt(line, d + n, <<"-", "-">>)
                          THEN SubSeq(line, r, r + Digits(line, r) - 1)
                          ELSE NoneText]
    ELSE [matched |-> FALSE, start |-> 0, line |-> NoneText, last |-> NoneText]

\* The characters that end the name of a file in re_file.
IsNameEnd(ch) == ch \in {" ", "\n", "\t", "(", ")", "{", "}"}

\* [^ \n\t(){}]*, greedy: the number of such characters from the character i on.
RECURSIVE NameLen(_, _)
NameLen(line, i) ==
    IF i <= Len(line) /\ ~IsNameEnd(line[i]) THEN 1 + NameLen(line, i + 1) ELSE 0

\* LogCheck.update_file without "last =" at a closing parenthesis: last is
\* the file opened last.
RECURSIVE update_fileOpened(_, _, _)
update_fileOpened(line, pos, last) ==
    IF \A i \in 1..Len(line) : line[i] \notin {"(", ")"}
    THEN [stack |-> pos, last |-> last, fault |-> ""]
    ELSE LET s == CHOOSE i \in 1..Len(line) :
                      /\ line[i] \in {"(", ")"}
                      /\ \A j \in 1..i - 1 : line[j] \notin {"(", ")"}
             n == NameLen(line, s + 1)
         IN  IF line[s] = "("
             THEN update_fileOpened(SubSeq(line, s + 1 + n, Len(line)),
                                    Append(pos, SubSeq(line, s + 1, s + n)),
                                    SubSeq(line, s + 1, s + n))
             ELSE IF pos = <<>>
             THEN [stack |-> pos, last |-> last, fault |-> "IndexError"]
             ELSE update_fileOpened(SubSeq(line, s + 1, Len(line)),
                                    SubSeq(pos, 1, Len(pos) - 1),
                                    last)

\* LogCheck.update_file: stack and last after the line; fault stands for the
\* IndexError of stack.pop () on an empty list.
\* re_file = (\((?P<file>[^ \n\t(){}]*)|\))
RECURSIVE update_file(_, _, _)
update_file(line, pos, last) ==
    IF \A i \in 1..Len(line) : line[i] \notin {"(", ")"}
    THEN [stack |-> pos, last |-> last, fault |-> ""]
    ELSE LET s == CHOOSE i \in 1..Len(line) :
                      /\ line[i] \in {"(", ")"}
                      /\ \A j \in 1..i - 1 : line[j] \notin {"(", ")"}
             n == NameLen(line, s + 1)
         IN  IF line[s] = "("
             THEN update_file(SubSeq(line, s + 1 + n, Len(line)),
                              Append(pos, SubSeq(line, s + 1, s + n)),
                              SubSeq(line, s + 1, s + n))
             ELSE IF pos = <<>>
             THEN [stack |-> pos, last |-> last, fault |-> "IndexError"]
             ELSE update_file(SubSeq(line, s + 1, Len(line)),
                              SubSeq(pos, 1, Len(pos) - 1),
                              pos[Len(pos)])

\* A match of re_page begins at the character p of line.  re_page = \[(?P<num>[0-9]+)\]
PageAt(line, p) ==
    /\ StartsAt(line, p, <<"[">>)
    /\ Digits(line, p + 1) > 0
    /\ StartsAt(line, p + 1 + Digits(line, p + 1), <<"]">>)

\* LogCheck.update_page that counts: one page more for every match of
\* re_page in the line, whatever its number.
update_pageCount(line, before) ==
    before + Cardinality({p \in 1..Len(line) : PageAt(line, p)})

\* LogCheck.update_page: the number of the last match of re_page, plus one.
update_page(line, before) ==
    IF \E p \in 1..Len(line) : PageAt(line, p)
    THEN LET p == CHOOSE p \in 1..Len(line) :
                      PageAt(line, p) /\ \A q \in p + 1..Len(line) : ~PageAt(line, q)
         IN  Int10(SubSeq(line, p + 1, p + Digits(line, p + 1))) + 1
    ELSE before

\* The text that parse compares error with.
TextUCS ==
    <<"U", "n", "d", "e", "f", "i", "n", "e", "d", " ", "c", "o", "n", "t", "r", "o",
      "l", " ", "s", "e", "q", "u", "e", "n", "c", "e", ".">>
TextUCSHead ==
    <<"U", "n", "d", "e", "f", "i", "n", "e", "d", " ", "c", "o", "n", "t", "r", "o",
      "l", " ", "s", "e", "q", "u", "e", "n", "c", "e", " ">>
TextPdfTeXPkg ==
    <<"p", "d", "f", "T", "e", "X">>
TextRefHead ==
    <<"R", "e", "f", "e", "r", "e", "n", "c", "e", " ", Grave>>
TextRefTail ==
    <<"'", " ", "u", "n", "d", "e", "f", "i", "n", "e", "d", ".">>

\* LogCheck.continued without the test of the length: no line is joined
\* with the next one.
continuedNever(line) == FALSE

\* LogCheck.continued
continued(line) == Len(line) = 79

\* An exception leaves parse.
ParseRaise(p, exception) == [p EXCEPT !.pc = "raised", !.fault = exception]

\* "yield d"
Yield(p, d) == [p EXCEPT !.out = Append(p.out, d)]

\* pos [-1]; the IndexError of an empty pos is the caller's to model.
TopOf(pos) == pos[Len(pos)]

\* parse, the special case without the test "if seq in cseqs": every
\* undefined control sequence is named.
NameCseqAgain(p, line) ==
    LET m == re_cseq(line)
    IN  IF p.error = TextUCS /\ m.matched
        THEN [p EXCEPT !.error = TextUCSHead \o m.seq \o <<".">>,
                       !.cseqs = p.cseqs \cup {m.seq}]
        ELSE p

\* parse, a line read while an error's text is parsed (parsing is 1): the
\* new error and cseqs of the special case "Undefined control sequence.".
NameCseq(p, line) ==
    LET m == re_cseq(line)
    IN  IF p.error = TextUCS /\ m.matched
        THEN IF m.seq \in p.cseqs
             THEN [p EXCEPT !.error = NoneText]
             ELSE [p EXCEPT !.error = TextUCSHead \o m.seq \o <<".">>,
                            !.cseqs = p.cseqs \cup {m.seq}]
        ELSE p

\* parse, the same line: "m = re_macro.match (line)"
NameMacro(p, line) ==
    IF re_macro(line).matched THEN [p EXCEPT !.macro = re_macro(line).macro] ELSE p

\* parse, the same line when re_line matches it: the end of the error.
EndOfError(p, line) ==
    LET m      == re_line(line)
        pdfTeX == Find(line, TextPdfTeX) # 0
        q      == [p EXCEPT !.parsing = FALSE, !.skipping = TRUE]
        colon  == Find(p.error, <<":">>)
        d0     == IF pdfTeX
                  THEN [NoDiag EXCEPT !.kind = "warning", !.pkg = TextPdfTeXPkg,
                                      !.text = Slice(p.error, colon + 1, Len(p.error))]
                  ELSE [NoDiag EXCEPT !.kind = "error", !.text = p.error]
        d1     == [d0 EXCEPT !.line = m.line, !.code = m.code]
        g      == re_ignored(p.error)
        d2     == IF g.matched
                  THEN [d1 EXCEPT !.file = p.last_file, !.code = Absent, !.line = g.line]
                  ELSE IF TopOf(p.pos) = NoneText
                  THEN [d1 EXCEPT !.file = p.last_file]
                  ELSE [d1 EXCEPT !.file = TopOf(p.pos)]
        d3     == IF p.macro # NoneText THEN [d2 EXCEPT !.macro = p.macro] ELSE d2
    IN  IF p.error # NoneText /\ ((pdfTeX /\ p.warnings) \/ (p.errors /\ ~pdfTeX))
        THEN IF ~re_ignored(p.error).matched /\ p.pos = <<>>
             THEN ParseRaise(q, "IndexError")
             ELSE Yield([q EXCEPT !.macro = NoneText], d3)
        ELSE q

\* parse, the branch "if parsing:" without "parsing = 0" at a line "***": the
\* error stays open after the abort.
ParsingLineStarsOpen(p0, line) ==
    LET p == NameMacro(NameCseq(p0, line), line)
    IN  IF re_line(line).matched THEN EndOfError(p, line)
        ELSE IF line = <<>> THEN ParseRaise(p, "IndexError")
        ELSE IF line[1] = "!" THEN [p EXCEPT !.error = Slice(line, 2, Len(line))]
        ELSE IF Slice(line, 0, 3) = TextStars
        THEN LET q == [p EXCEPT !.skipping = TRUE]
             IN  IF p.errors
                 THEN Yield(q, [NoDiag EXCEPT !.kind = "abort", !.text = p.error,
                                              !.why = Slice(line, 4, Len(line)),
                                              !.file = p.last_file])
                 ELSE q
        ELSE IF Slice(line, 0, 15) = TextTypeX
        THEN LET q == [p EXCEPT !.parsing = FALSE, !.skipping = FALSE]
             IN  IF ~p.errors THEN q
                 ELSE IF p.pos = <<>> THEN ParseRaise(q, "IndexError")
                 ELSE Yield(q, [NoDiag EXCEPT !.kind = "error", !.text = p.error,
                                              !.file = TopOf(p.pos)])
        ELSE p

\* parse, the whole branch "if parsing:".
ParsingLine(p0, line) ==
    LET p == NameMacro(NameCseq(p0, line), line)
    IN  IF re_line(line).matched THEN EndOfError(p, line)
        ELSE IF line = <<>> THEN ParseRaise(p, "IndexError")
        ELSE IF line[1] = "!" THEN [p EXCEPT !.error = Slice(line, 2, Len(line))]
        ELSE IF Slice(line, 0, 3) = TextStars
        THEN LET q == [p EXCEPT !.parsing = FALSE, !.skipping = TRUE]
             IN  IF p.errors
                 THEN Yield(q, [NoDiag EXCEPT !.kind = "abort", !.text = p.error,
                                              !.why = Slice(line, 4, Len(line)),
                                              !.file = p.last_file])
                 ELSE q
        ELSE IF Slice(line, 0, 15) = TextTypeX
        THEN LET q == [p EXCEPT !.parsing = FALSE, !.skipping = FALSE]
             IN  IF ~p.errors THEN q
                 ELSE IF p.pos = <<>> THEN ParseRaise(q, "IndexError")
                 ELSE Yield(q, [NoDiag EXCEPT !.kind = "error", !.text = p.error,
                                              !.file = TopOf(p.pos)])
        ELSE p

\* parse, a line read while a long warning is open (prefix is not None).
\* text and info are not read again once prefix is None: they are reset.
LongWarning(p, line) ==
    IF StartsWith(line, p.prefix)
    THEN [p EXCEPT !.text = Append(p.text, Strip(Slice(line, Len(p.prefix), Len(line))))]
    ELSE LET text == Join(p.text)
             m    == re_online(text)
             info == IF m.matched THEN [p.info EXCEPT !.line = m.line] ELSE p.info
             rest == IF m.matched
                     THEN Slice(text, 0, m.start - 1) \o Slice(text, m.end - 1, Len(text))
                     ELSE text
             q    == [p EXCEPT !.prefix = NoneText, !.text = <<>>, !.info = NoDiag]
         IN  IF p.warnings
             THEN Yield(q, [info EXCEPT !.kind = "warning", !.text = rest])
             ELSE q

\* parse, "m = re_reference.match (line)" has matched.
UndefinedReference(p, line) ==
    LET m == re_reference(line)
    IN  IF ~p.refs THEN p
        ELSE IF p.pos = <<>> THEN ParseRaise(p, "IndexError")
        ELSE Yield(p, [NoDiag EXCEPT !.kind = "warning",
                                     !.text = TextRefHead \o m.ref \o TextRefTail,
                                     !.file = TopOf(p.pos),
                                     !.ref = m.ref, !.page = m.page, !.line = m.line])

\* parse, "m = re_label.match (line)" has matched.
LabelWarning(p, line) ==
    IF ~p.refs THEN p
    ELSE IF p.pos = <<>> THEN ParseRaise(p, "IndexError")
    ELSE Yield(p, [NoDiag EXCEPT !.kind = "warning", !.file = TopOf(p.pos),
                                 !.text = re_label(line).text])

\* parse, a line that holds "Warning": the long warning that re_warning opens.
OtherWarning(p, line) ==
    LET m      == re_warning(line)
        prefix == IF m.pkg = NoneText THEN <<>> ELSE <<"(">> \o m.pkg \o <<")">>
    IN  IF ~m.matched THEN p
        ELSE IF p.pos = <<>> THEN ParseRaise(p, "IndexError")
        ELSE [p EXCEPT !.info = [NoDiag EXCEPT !.text = m.text,
                                               !.pkg = IF m.pkg = NoneText THEN Absent
                                                       ELSE m.pkg,
                                               !.file = TopOf(p.pos),
                                               !.page = IntValue(p.page)],
                       !.prefix = Ljust(prefix, m.start),
                       !.text = <<m.text>>]

\* parse, the bad box without the lines of re_atline in the diagnostic.
BadBoxNoRange(p, line) ==
    LET q == [p EXCEPT !.skipping = TRUE]
        d == [NoDiag EXCEPT !.kind = "warning",
                            !.text = line,
                            !.file = TopOf(p.pos),
                            !.page = IntValue(p.page)]
    IN  IF ~p.boxes THEN q
        ELSE IF p.pos = <<>> THEN ParseRaise(p, "IndexError")
        ELSE Yield(q, d)

\* parse, "m = re_badbox.match (line)" has matched.
BadBox(p, line) ==
    LET m == re_atline(line)
        q == [p EXCEPT !.skipping = TRUE]
        d == [NoDiag EXCEPT !.kind = "warning",
                            !.text = IF m.matched THEN Slice(line, 0, m.start) ELSE line,
                            !.file = TopOf(p.pos),
                            !.page = IntValue(p.page),
                            !.line = IF m.matched /\ m.line # <<>> THEN m.line ELSE Absent,
                            !.last = IF m.matched /\ m.last \notin {<<>>, NoneText}
                                     THEN m.last ELSE Absent]
    IN  IF ~p.boxes THEN q
        ELSE IF p.pos = <<>> THEN ParseRaise(p, "IndexError")
        ELSE Yield(q, d)

\* parse, a line without message: update_file and update_page.
TrackLine(p, line) ==
    LET f == update_file(line, p.pos, p.last_file)
    IN  IF f.fault # "" THEN ParseRaise([p EXCEPT !.pos = f.stack], f.fault)
        ELSE [p EXCEPT !.pos = f.stack, !.last_file = f.last,
                       !.page = update_page(line, p.page)]

\* parse, the body of the loop with "if self.continued(line)" alone: lines
\* of 79 characters are joined while the text of an error is parsed as well.
IterateJoinAlways(p0, physical) ==
    LET p == [p0 EXCEPT !.lines = Append(p0.lines, physical)]
    IN  IF continued(physical)
        THEN [p EXCEPT !.accu = p.accu \o physical]
        ELSE LET line == p.accu \o physical
                 q    == [p EXCEPT !.accu = <<>>]
             IN  IF q.prefix = NoneText /\ line = <<>> THEN [q EXCEPT !.skipping = FALSE]
                 ELSE IF q.skipping THEN q
                 ELSE IF q.parsing THEN ParsingLine(q, line)
                 ELSE IF StartsWith(line, <<"!">>)
                 THEN [q EXCEPT !.error = Slice(line, 2, Len(line)), !.parsing = TRUE]
                 ELSE IF line = TextRunaway
                 THEN [q EXCEPT !.error = line, !.parsing = TRUE]
                 ELSE IF Slice(line, 0, 17) = TextWritten THEN q
                 ELSE IF StartsWith(line, TextMissing)
                 THEN [q EXCEPT !.error = line, !.parsing = FALSE]
                 ELSE IF q.prefix # NoneText THEN LongWarning(q, line)
                 ELSE IF re_reference(line).matched THEN UndefinedReference(q, line)
                 ELSE IF re_label(line).matched THEN LabelWarning(q, line)
                 ELSE IF Find(line, TextWarning) # 0 THEN OtherWarning(q, line)
                 ELSE IF re_badbox(line) THEN BadBox(q, line)
                 ELSE IF re_rawbox(line) THEN [q EXCEPT !.skipping = TRUE]
                 ELSE TrackLine(q, line)

\* parse, the body of "for line in self.lines" for the next line of the log.
Iterate(p0, physical) ==
    LET p == [p0 EXCEPT !.lines = Append(p0.lines, physical)]
    IN  IF ~p.parsing /\ continued(physical)
        THEN [p EXCEPT !.accu = p.accu \o physical]
        ELSE LET line == p.accu \o physical
                 q    == [p EXCEPT !.accu = <<>>]
             IN  IF q.prefix = NoneText /\ line = <<>> THEN [q EXCEPT !.skipping = FALSE]
                 ELSE IF q.skipping THEN q
                 ELSE IF q.parsing THEN ParsingLine(q, line)
                 ELSE IF StartsWith(line, <<"!">>)
                 THEN [q EXCEPT !.error = Slice(line, 2, Len(line)), !.parsing = TRUE]
                 ELSE IF line = TextRunaway
                 THEN [q EXCEPT !.error = line, !.parsing = TRUE]
                 ELSE IF Slice(line, 0, 17) = TextWritten THEN q
                 ELSE IF StartsWith(line, TextMissing)
                 THEN [q EXCEPT !.error = line, !.parsing = FALSE]
                 ELSE IF q.prefix # NoneText THEN LongWarning(q, line)
                 ELSE IF re_reference(line).matched THEN UndefinedReference(q, line)
                 ELSE IF re_label(line).matched THEN LabelWarning(q, line)
                 ELSE IF Find(line, TextWarning) # 0 THEN OtherWarning(q, line)
                 ELSE IF re_badbox(line) THEN BadBox(q, line)
                 ELSE IF re_rawbox(line) THEN [q EXCEPT !.skipping = TRUE]
                 ELSE TrackLine(q, line)

LineUCS ==
    <<"!", " ", "U", "n", "d", "e", "f", "i", "n", "e", "d", " ", "c", "o", "n", "t",
      "r", "o", "l", " ", "s", "e", "q", "u", "e", "n", "c", "e", ".">>
LineL7 ==
    <<"l", ".", "7", " ", "\\", "a", "\\", "b">>
LineBlank ==
    <<>>
LineMacro ==
    <<"\\", "m", " ", "-", ">", "\\", "b", " ">>
LineWarning ==
    <<"L", "a", "T", "e", "X", " ", "W", "a", "r", "n", "i", "n", "g", ":", " ", "x">>
LineBox ==
    <<"O", "v", "e", "r", "f", "u", "l", "l", " ", "\\", "h", "b", "o", "x", " ", "i",
      "n", " ", "p", "a", "r", "a", "g", "r", "a", "p", "h", " ", "a", "t", " ", "l",
      "i", "n", "e", "s", " ", "5", "-", "-", "6">>
LineStars ==
    <<"*", "*", "*", " ", "(", "j", "o", "b", " ", "a", "b", "o", "r", "t", "e", "d",
      ")">>

\* The lines that the logs of ErrorLogSpec are made of.
ErrorLines == {LineUCS, LineL7, LineBlank, LineMacro, LineWarning, LineBox, LineStars}

\* The most lines of a log.
MaxLogLines == 5

\* parse reads the next line of the log.
ParseLine(logLines) ==
    /\ parser.pc = "loop"
    /\ Len(parser.lines) < MaxLogLines
    /\ \E physical \in logLines : parser' = Iterate(parser, physical)

\* parse: the log has no more lines ("if not self.lines: return" for the
\* log without any line).
ParseEnd ==
    /\ parser.pc = "loop"
    /\ parser' = [parser EXCEPT !.pc = "done"]

ParserIdle ==
    /\ disk = [p \in Paths |-> [exists |-> FALSE, mtime |-> 0, content |-> 0]]
    /\ files = <<>>
    /\ sources = [n \in Nodes |-> <<>>]
    /\ products = [n \in Nodes |-> <<>>]
    /\ recipe = [n \in Nodes |-> [latex |-> FALSE, flip |-> FALSE]]
    /\ snapshots = [n \in Nodes |-> NoneSnap]
    /\ making = [n \in Nodes |-> FALSE]
    /\ failed_dep = [n \in Nodes |-> NoNode]
    /\ stack = <<>>
    /\ fault = NoFault
    /\ edits = 0
    /\ lastRet = NoRet
    /\ goodSnap = [n \in Nodes |-> NoneSnap]
    /\ lastSnap = NoSnap
    /\ obs = [p \in Paths |-> NoObs]
    /\ calls = 0
    /\ envUsed = 0
    /\ cache = NoCache
    /\ session = NoSession
    /\ driver = NoDriver
    /\ codec = NoCodec
    /\ logcheck = NoLogCheck
    /\ compiler = NoCompiler

\* LogCheck.get_errors and the parse call of Main.build: errors alone, or
\* the other three flags.
ErrorLogInit ==
    /\ ParserIdle
    /\ \E errors \in BOOLEAN, others \in BOOLEAN :
           parser = [NoParser EXCEPT !.pc = "loop", !.errors = errors, !.boxes = others,
                                     !.refs = others, !.warnings = others]

\* What no step of parse changes.
parserRest ==
    <<disk, files, sources, products, recipe, edits, cacheVars, driver, codec, logcheck, compiler,
      makeVars, snapVars, envUsed>>

ErrorLogNext ==
    \/ ParseLine(ErrorLines) /\ UNCHANGED parserRest
    \/ ParseEnd /\ UNCHANGED parserRest

ErrorLogSpec == ErrorLogInit /\ [][ErrorLogNext]_vars

LineL9 ==
    <<"l", ".", "9", " ", "\\", "c">>
LineBang ==
    <<"!", " ", "X">>

\* The lines that the logs of TokenSpec are made of: undefined control
\* sequences with two tokens, \b and \c.
TokenLines == {LineUCS, LineL7, LineL9, LineBlank, LineMacro, LineStars, LineBang}

TokenNext ==
    \/ ParseLine(TokenLines) /\ UNCHANGED parserRest
    \/ ParseEnd /\ UNCHANGED parserRest

TokenSpec == ErrorLogInit /\ [][TokenNext]_vars

\* A line of 79 characters, the width at which TeX breaks the lines of its log.
Line79 == [i \in 1..79 |-> "x"]
LineOpen ==
    <<"(", "f">>
LinePage ==
    <<"[", "2", "]">>

\* The lines that the logs of SkipSpec are made of: bad boxes, their
\* renditions, blank lines, and lines that open a file or end a page.
SkipLines == {LineBox, Line79, LineBlank, LineOpen, LinePage}

SkipNext ==
    \/ ParseLine(SkipLines) /\ UNCHANGED parserRest
    \/ ParseEnd /\ UNCHANGED parserRest

SkipSpec == ErrorLogInit /\ [][SkipNext]_vars

\* ------------------------------------------------- LogCheck: readlog, parse

Nl == "\n"
TextThisIs ==
    <<"T", "h", "i", "s", " ", "i", "s", " ">>

\* re_loghead.match (line): "This is [0-9a-zA-Z-]*" at the start of the line.
re_loghead(line) == StartsWith(line, TextThisIs)

\* fp.readline (): the text up to the first newline, the newline included.
readline(text) ==
    LET n == Find(text, <<Nl>>)
    IN  IF n = 0 THEN text ELSE SubSeq(text, 1, n)

\* whole_file.split ('\n')
RECURSIVE split(_)
split(text) ==
    LET n == Find(text, <<Nl>>)
    IN  IF n = 0 THEN <<text>>
        ELSE <<SubSeq(text, 1, n - 1)>> \o split(SubSeq(text, n + 1, Len(text)))

\* LogCheck.readlog without "self.lines = None": a readlog that fails leaves
\* the lines of the log read before.
readlogStale(lc, file, limit) ==
    LET line       == readline(file.text)
        rest       == Slice(file.text, Len(line), Len(file.text))
        whole_file == Slice(rest, 0, limit)
    IN  IF ~file.exists THEN [lc EXCEPT !.ret = "False"]
        ELSE IF line = <<>> \/ ~re_loghead(line) THEN [lc EXCEPT !.ret = "False"]
        ELSE [lc EXCEPT !.held = TRUE, !.lines = split(whole_file), !.ret = "True",
                        !.long = Len(rest) > limit]

\* LogCheck.readlog: a file that does not exist is the IOError of open.
readlog(lc, file, limit) ==
    LET cleared    == [lc EXCEPT !.held = FALSE, !.lines = <<>>, !.long = FALSE]
        line       == readline(file.text)
        rest       == Slice(file.text, Len(line), Len(file.text))
        whole_file == Slice(rest, 0, limit)
    IN  IF ~file.exists THEN [cleared EXCEPT !.ret = "False"]
        ELSE IF line = <<>> \/ ~re_loghead(line) THEN [cleared EXCEPT !.ret = "False"]
        ELSE [cleared EXCEPT !.held = TRUE, !.lines = split(whole_file), !.ret = "True",
                             !.long = Len(rest) > limit]

\* The text of a file with the lines given, each ended by a newline.
RECURSIVE FileText(_)
FileText(lines) ==
    IF lines = <<>> THEN <<>> ELSE Head(lines) \o <<Nl>> \o FileText(Tail(lines))

LineHead ==
    <<"T", "h", "i", "s", " ", "i", "s", " ", "T", "e", "X">>
LineClose ==
    <<")">>

\* The logs of LogCheckSpec after their first line: an undefined control
\* sequence twice, a bad box, and a ")" too many.
LogBodies ==
    {<<LineUCS, LineL7, LineBlank, LineUCS, LineL7>>,
     <<LineBox, LineBlank, LineOpen>>,
     <<LineClose, LineClose, LineUCS>>}

\* The files that readlog is given: one that does not exist, an empty one,
\* one of another program, and the logs of TeX.
LogFiles ==
    {[exists |-> FALSE, text |-> <<>>], [exists |-> TRUE, text |-> <<>>]}
    \cup {[exists |-> TRUE, text |-> FileText(<<LineStars>> \o body)] : body \in LogBodies}
    \cup {[exists |-> TRUE, text |-> FileText(<<LineHead>> \o body)] : body \in LogBodies}

\* LaTeXDep.logfile_limit, and a limit that cuts the logs of the model.
logfile_limit == 1000000
Limits == {40, logfile_limit}

\* The most calls of readlog and of parse.
MaxReads == 2
MaxPasses == 2

\* A call of readlog.
Readlog ==
    /\ logcheck.reads < MaxReads
    /\ \E file \in LogFiles, limit \in Limits :
           logcheck' = [readlog(logcheck, file, limit)
                            EXCEPT !.file = file, !.reads = logcheck.reads + 1]
    /\ UNCHANGED parser

\* parse, its local variables before the loop, with the dict cseqs of the
\* pass before in place of a new one.
LocalsKept(p, errors, boxes, refs, warnings) ==
    [NoParser EXCEPT !.pc = "loop", !.errors = errors, !.boxes = boxes,
                     !.refs = refs, !.warnings = warnings, !.cseqs = p.cseqs]

\* parse, its local variables before the loop.
Locals(p, errors, boxes, refs, warnings) ==
    [NoParser EXCEPT !.pc = "loop", !.errors = errors, !.boxes = boxes,
                     !.refs = refs, !.warnings = warnings]

\* A call of parse once the pass before has ended, up to its loop: "if not
\* self.lines: return".
ParseCall ==
    /\ parser.pc \in {"", "done", "raised"}
    /\ logcheck.passes < MaxPasses
    /\ \E errors \in BOOLEAN, others \in BOOLEAN :
           LET p == Locals(parser, errors, others, others, others)
           IN  parser' = IF ~logcheck.held \/ logcheck.lines = <<>>
                         THEN [p EXCEPT !.pc = "done"]
                         ELSE p
    /\ logcheck' = [logcheck EXCEPT
           !.passes = logcheck.passes + 1,
           !.given = [held |-> logcheck.held, lines |-> logcheck.lines],
           !.prev = IF parser.pc = "" THEN NoPass
                    ELSE [valid |-> TRUE, errors |-> parser.errors,
                          boxes |-> parser.boxes, refs |-> parser.refs,
                          warnings |-> parser.warnings,
                          held |-> logcheck.given.held,
                          lines |-> logcheck.given.lines,
                          out |-> parser.out, fault |-> parser.fault]]

\* parse reads the next line of self.lines.
ParseHeld ==
    /\ parser.pc = "loop"
    /\ Len(parser.lines) < Len(logcheck.given.lines)
    /\ parser' = Iterate(parser, logcheck.given.lines[Len(parser.lines) + 1])
    /\ UNCHANGED logcheck

\* parse: self.lines has no more lines.
ParseReturn ==
    /\ parser.pc = "loop"
    /\ Len(parser.lines) = Len(logcheck.given.lines)
    /\ parser' = [parser EXCEPT !.pc = "done"]
    /\ UNCHANGED logcheck

LogCheckInit ==
    /\ ParserIdle
    /\ parser = NoParser

logcheckRest ==
    <<disk, files, sources, products, recipe, edits, cacheVars, driver, codec, compiler,
      makeVars, snapVars, envUsed>>

LogCheckNext ==
    \/ Readlog /\ UNCHANGED logcheckRest
    \/ ParseCall /\ UNCHANGED logcheckRest
    \/ ParseHeld /\ UNCHANGED logcheckRest
    \/ ParseReturn /\ UNCHANGED logcheckRest

LogCheckSpec == LogCheckInit /\ [][LogCheckNext]_vars

\* Lines of 79 characters: one "l.7 xxx...", and one that ends in "(".
LineL79 ==
    [i \in 1..79 |-> IF i = 1 THEN "l" ELSE IF i = 2 THEN "." ELSE IF i = 3 THEN "7"
                     ELSE IF i = 4 THEN " " ELSE "x"]
Line79Open ==
    [i \in 1..79 |-> IF i = 79 THEN "(" ELSE "x"]
LineF ==
    <<"f">>

\* The lines that the logs of WrapSpec are made of.
WrapLines == {LineBang, LineL79, Line79Open, LineF, LineBlank}

WrapNext ==
    \/ ParseLine(WrapLines) /\ UNCHANGED parserRest
    \/ ParseEnd /\ UNCHANGED parserRest

WrapSpec == ErrorLogInit /\ [][WrapNext]_vars

\* ------------------------------------------------------------------- clean

\* "os.remove (path)" for every product of n that exists.
RemoveProducts(d, n) ==
    [p \in Paths |-> IF p \in Range(products[n]) THEN [d[p] EXCEPT !.exists = FALSE]
                     ELSE d[p]]

\* clean, from the state st of the files and the making flags; fault is the
\* exception that has left it.
RECURSIVE CleanSources(_, _, _)
RECURSIVE clean(_, _)

\* Node.clean, "for source in self.sources" from the i-th source on.
CleanSources(n, i, st) ==
    IF st.fault # "" \/ i > Len(sources[n]) THEN st
    ELSE LET producer == files[sources[n][i]].producer
         IN  CleanSources(n, i + 1,
                          IF producer # NoNode /\ ~st.making[producer]
                          THEN clean(producer, st)
                          ELSE st)

\* A Node.clean that leaves its lock set when it returns.
NodeCleanLocked(n, st) ==
    LET removed == [st EXCEPT !.disk = RemoveProducts(st.disk, n)]
    IN  IF removed.making[n] THEN [removed EXCEPT !.fault = "AssertionError"]
        ELSE CleanSources(n, 1, [removed EXCEPT !.making[n] = TRUE])

\* Node.clean
NodeClean(n, st) ==
    LET removed == [st EXCEPT !.disk = RemoveProducts(st.disk, n)]
    IN  IF removed.making[n] THEN [removed EXCEPT !.fault = "AssertionError"]
        ELSE LET after == CleanSources(n, 1, [removed EXCEPT !.making[n] = TRUE])
             IN  IF after.fault # "" THEN after
                 ELSE [after EXCEPT !.making[n] = FALSE]

\* LaTeXDep.clean: the clean of every module, and no call of Node.clean. The
\* files that modules remove are not products of nodes.
LaTeXDepClean(n, st) == st

clean(n, st) == IF recipe[n].latex THEN LaTeXDepClean(n, st) ELSE NodeClean(n, st)

\* The most calls of clean, and the most files written between them.
MaxCleanCalls == 2
MaxCleanEnv == 1

\* A call of clean on the node n, as cmdline makes it for every node; lastRet
\* names the node, fault the exception that has left the call.
CleanCall(n) ==
    LET st == clean(n, [disk |-> disk, making |-> making, fault |-> ""])
    IN  /\ calls < MaxCleanCalls
        /\ calls' = calls + 1
        /\ disk' = st.disk
        /\ making' = st.making
        /\ fault' = IF st.fault = "" THEN NoFault
                    ELSE [kind |-> st.fault, node |-> n, depth |-> 0]
        /\ lastRet' = [NoRet EXCEPT !.node = n, !.why = "clean"]

\* The nodes as constructed, with any of the files left by earlier builds.
CleanInit ==
    /\ \E g \in Graphs :
         /\ sources = g.sources
         /\ products = g.products
         /\ files = InitFiles(g)
         /\ recipe \in [Nodes -> [latex : BOOLEAN, flip : {FALSE}]]
         /\ \A n \in Nodes : recipe[n].latex => n = 1
         /\ g = CycleGraph => recipe[1].latex
    /\ \E present \in SUBSET Paths :
         disk = [p \in Paths |-> [exists |-> p \in present, mtime |-> 0, content |-> 0]]
    /\ snapshots = [n \in Nodes |-> NoneSnap]
    /\ making = [n \in Nodes |-> FALSE]
    /\ failed_dep = [n \in Nodes |-> NoNode]
    /\ stack = <<>>
    /\ fault = NoFault
    /\ edits = 0
    /\ lastRet = NoRet
    /\ goodSnap = [n \in Nodes |-> NoneSnap]
    /\ lastSnap = NoSnap
    /\ obs = [p \in Paths |-> NoObs]
    /\ calls = 0
    /\ envUsed = 0
    /\ cache = NoCache
    /\ session = NoSession
    /\ driver = NoDriver
    /\ codec = NoCodec
    /\ parser = NoParser
    /\ logcheck = NoLogCheck
    /\ compiler = NoCompiler

CleanNext ==
    \/ /\ \E n \in Nodes : CleanCall(n)
       /\ UNCHANGED <<files, snapshots, failed_dep, stack, goodSnap, snapVars, envUsed,
                      nodeVars>>
    \/ /\ \E p \in Paths : EnvEdit(p, MaxCleanEnv)
       /\ UNCHANGED <<files, makeVars, snapVars, nodeVars>>

CleanSpec == CleanInit /\ [][CleanNext]_vars

LineNest ==
    <<"(", "a", " ", "(", "b", ")", " ", "(", "c">>
LineCloses ==
    <<")", ")">>

\* The lines that the logs of FileSpec are made of: files opened and closed,
\* and the messages whose diagnostics name a file.
FileLines == {LineNest, LineCloses, LineBox, LineBang, LineL7, LineStars, LineBlank}

FileNext ==
    \/ ParseLine(FileLines) /\ UNCHANGED parserRest
    \/ ParseEnd /\ UNCHANGED parserRest

FileSpec == ErrorLogInit /\ [][FileNext]_vars

LinePage5 ==
    <<"[", "5", "]">>
LinePages ==
    <<"[", "1", "]", " ", "[", "2", "]">>

\* The lines that the logs of PageSpec are made of: ends of pages, and the
\* messages whose diagnostics name a page.
PageLines == {LinePage, LinePage5, LinePages, LineBox, LineWarning, LineBlank}

PageNext ==
    \/ ParseLine(PageLines) /\ UNCHANGED parserRest
    \/ ParseEnd /\ UNCHANGED parserRest

PageSpec == ErrorLogInit /\ [][PageNext]_vars

\* ------------------------------------------------------- LaTeXDep.compile

\* LogCheck.errors, from the i-th line of self.lines on.
RECURSIVE errorsFrom(_, _, _)
errorsFrom(lines, i, skipping) ==
    IF i > Len(lines) THEN FALSE
    ELSE IF Strip(lines[i]) = <<>> THEN errorsFrom(lines, i + 1, FALSE)
    ELSE IF skipping THEN errorsFrom(lines, i + 1, skipping)
    ELSE IF re_badbox(lines[i]) THEN errorsFrom(lines, i + 1, TRUE)
    ELSE IF lines[i][1] = "!" /\ Find(lines[i], TextPdfTeX) = 0 THEN TRUE
    ELSE errorsFrom(lines, i + 1, skipping)

\* LogCheck.errors
errors(lines) == errorsFrom(lines, 1, FALSE)

LinePdfWarning ==
    <<"!", "p", "d", "f", "T", "e", "X", " ", "w", "a", "r", "n", "i", "n", "g", ":",
      " ", "x">>

\* The logs that compile finds, after their first line: those of LogBodies,
\* an error in the text after a bad box, a warning of pdfTeX in the form of
\* an error, and a log without message.
CompileBodies ==
    LogBodies \cup {<<LineBox, LineBang, LineBlank>>, <<LinePdfWarning, LineBlank>>,
                    <<LineOpen, LinePage, LineCloses>>}

CompileFiles ==
    {[exists |-> FALSE, text |-> <<>>], [exists |-> TRUE, text |-> <<>>],
     [exists |-> TRUE, text |-> FileText(<<LineStars, LineBlank>>)]}
    \cup {[exists |-> TRUE, text |-> FileText(<<LineHead>> \o body)] : body \in CompileBodies}

\* LaTeXDep.compile from "if rubber.util.execute (cmd, env=env) != 0" on,
\* without the test of the primary product.
compileUnchecked(lc, status, file, produced) ==
    LET read == readlog(lc, file, logfile_limit)
    IN  IF status # 0 THEN [ret |-> FALSE, read |-> FALSE, log |-> lc]
        ELSE IF read.ret # "True" THEN [ret |-> FALSE, read |-> TRUE, log |-> read]
        ELSE IF errors(read.lines) THEN [ret |-> FALSE, read |-> TRUE, log |-> read]
        ELSE [ret |-> TRUE, read |-> TRUE, log |-> read]

\* LaTeXDep.compile from "if rubber.util.execute (cmd, env=env) != 0" on:
\* status is what execute returns, file the log that the compiler has left,
\* produced the answer of os.access for the primary product.
compile(lc, status, file, produced) ==
    LET read == readlog(lc, file, logfile_limit)
    IN  IF status # 0 THEN [ret |-> FALSE, read |-> FALSE, log |-> lc]
        ELSE IF read.ret # "True" THEN [ret |-> FALSE, read |-> TRUE, log |-> read]
        ELSE IF errors(read.lines) THEN [ret |-> FALSE, read |-> TRUE, log |-> read]
        ELSE IF ~produced THEN [ret |-> FALSE, read |-> TRUE, log |-> read]
        ELSE [ret |-> TRUE, read |-> TRUE, log |-> read]

\* The exit statuses of the compiler.
Statuses == {0, 1}

\* The most calls of compile.
MaxCompiles == 2

\* A call of compile.
Compile ==
    /\ compiler.runs < MaxCompiles
    /\ \E status \in Statuses, file \in CompileFiles, produced \in BOOLEAN :
           LET c == compile(logcheck, status, file, produced)
           IN  /\ compiler' = [pc |-> "done", status |-> status, file |-> file,
                               produced |-> produced, ret |-> c.ret, read |-> c.read,
                               runs |-> compiler.runs + 1]
               /\ logcheck' = IF c.read
                              THEN [c.log EXCEPT !.file = file,
                                                 !.reads = logcheck.reads + 1]
                              ELSE logcheck
    /\ UNCHANGED parser

CompileInit ==
    /\ ParserIdle
    /\ parser = NoParser

compileRest ==
    <<disk, files, sources, products, recipe, edits, cacheVars, driver, codec, makeVars,
      snapVars, envUsed>>

CompileNext ==
    Compile /\ UNCHANGED compileRest

CompileSpec == CompileInit /\ [][CompileNext]_vars

\* ------------------------------------------- add_source and remove_source

\* The most calls of add_source and remove_source.
MaxEdits == 1

\* list.remove: the sequence without its first element equal to x.
RECURSIVE Remove(_, _)
Remove(s, x) ==
    IF s = <<>> THEN <<>>
    ELSE IF Head(s) = x THEN Tail(s)
    ELSE <<Head(s)>> \o Remove(Tail(s), x)

\* Node.add_source: the _File of the name, made by factory when it is new,
\* is appended unless it is listed; self.snapshots is not touched.
AddSource(n, p) ==
    /\ stack = <<>>
    /\ Registered(n)
    /\ edits < MaxEdits
    /\ edits' = edits + 1
    /\ files' = Factory(files, p)
    /\ sources' = [sources EXCEPT ![n] = IF p \in Range(@) THEN @ ELSE Append(@, p)]
    /\ UNCHANGED <<disk, products, recipe, cacheVars, toolVars, makeVars, snapVars,
                   envUsed>>

\* Node.remove_source: list.remove raises ValueError when the name is not
\* listed; self.snapshots is not touched.
RemoveSource(n, p) ==
    /\ stack = <<>>
    /\ Registered(n)
    /\ edits < MaxEdits
    /\ edits' = edits + 1
    /\ IF p \in Range(sources[n])
       THEN /\ sources' = [sources EXCEPT ![n] = Remove(@, p)]
            /\ UNCHANGED <<stack, fault>>
       ELSE /\ Raise("ValueError", n)
            /\ UNCHANGED sources
    /\ files' = Factory(files, p)
    /\ UNCHANGED <<disk, products, recipe, cacheVars, toolVars, snapshots, making,
                   failed_dep, lastRet, goodSnap, calls, snapVars, envUsed>>

\* save_cache: node.snapshots [i] for i in range (len (node.sources)) leaves
\* the record of node.
ShortRecord(node) ==
    /\ snapshots[node] # NoneSnap
    /\ Len(snapshots[node]) < Len(sources[node])

\* save_cache: what is written until the IndexError at the first node of
\* order with a record shorter than its sources.
RECURSIVE SaveLinesShort(_)
SaveLinesShort(order) ==
    IF order = <<>> THEN <<>>
    ELSE LET node == Head(order)
         IN  IF ShortRecord(node)
             THEN <<<<products[node][1], "\n">>>>
                  \o [i \in 1..Len(snapshots[node]) |->
                        SourceLine(snapshots[node][i], sources[node][i])]
             ELSE NodeLines(node, snapshots, products, sources)
                  \o SaveLinesShort(Tail(order))

\* save_cache (cache_path, final) while the sources of the nodes are edited:
\* the IndexError leaves the with statement, which closes the file.
SaveCacheEdited(n) ==
    IF \E i \in 1..Len(all_producers(sources, files, n)) :
           ShortRecord(all_producers(sources, files, n)[i])
    THEN /\ stack = <<>>
         /\ Registered(n)
         /\ ~session.saved
         /\ cache' = [exists |-> TRUE,
                      lines  |-> SaveLinesShort(all_producers(sources, files, n))]
         /\ session' = [session EXCEPT !.saved = TRUE, !.root = n, !.damaged = TRUE]
         /\ Raise("index", n)
         /\ UNCHANGED <<disk, files, sources, products, recipe, edits, snapshots, making,
                        failed_dep, lastRet, goodSnap, calls, snapVars, envUsed, toolVars>>
    ELSE SaveCache(n)

EditNext ==
    \/ \E n \in Nodes : StartMake(n)
    \/ CacheStep
    \/ \E n \in Nodes, p \in Paths : AddSource(n, p)
    \/ \E n \in Nodes, p \in Paths : RemoveSource(n, p)
    \/ \E n \in Nodes : SaveCacheEdited(n)
    \/ LoadCache

EditSpec == CacheInit /\ [][EditNext]_vars

\* ---------------------------------------------------- make and clean mixed

\* The builds of Spec with calls of clean between them: both lock the node
\* with its making flag.
FlagNext ==
    \/ \E n \in Nodes : StartMake(n)
    \/ Step
    \/ Quiet /\ Env(MaxEnv)
    \/ /\ Quiet
       /\ \E n \in Nodes : Registered(n) /\ CleanCall(n)
       /\ UNCHANGED <<files, snapshots, failed_dep, stack, goodSnap, snapVars, envUsed,
                      nodeVars>>

FlagSpec == Init /\ [][FlagNext]_vars

\* ------------------------------------------------------------ add_product

\* _File.set_producer
set_producer(f, producer) == [f EXCEPT !.producer = producer]

\* Node.add_product: the assertion fails when the node lists the file among
\* its products; the producer that the file may have is not looked at.
AddProduct(n, p) ==
    /\ stack = <<>>
    /\ LET fbp == Factory(files, p)
       IN  IF p \in Range(products[n])
           THEN /\ Raise("AssertionError", n)
                /\ files' = fbp
                /\ UNCHANGED products
           ELSE /\ files' = [fbp EXCEPT ![p] = set_producer(@, n)]
                /\ products' = [products EXCEPT ![n] = Append(@, p)]
                /\ UNCHANGED <<stack, fault>>
    /\ UNCHANGED <<disk, sources, recipe, edits, cacheVars, toolVars, snapshots, making,
                   failed_dep, lastRet, goodSnap, calls, snapVars, envUsed>>

\* No node has a product yet, and no file exists.
ProductInit ==
    /\ SnapInit
    /\ \A p \in Paths : ~disk[p].exists

ProductNext ==
    \E n \in Nodes, p \in Paths : AddProduct(n, p)

ProductSpec == ProductInit /\ [][ProductNext]_vars

\* ------------------------------------------------- the flags of parse

LinePdf ==
    <<"l", ".", "9", " ", "p", "d", "f", "T", "e", "X", " ", "w", "a", "r", "n", "i",
      "n", "g">>

\* The lines that the logs of InterestSpec are made of.
InterestLines == {LineBang, LineMacro, LineL7, LinePdf, LineBlank, LineBox}

\* The most lines of a log of InterestSpec.
MaxInterestLines == 6

\* parse with any of its four flags set or not.
InterestInit ==
    /\ ParserIdle
    /\ \E e \in BOOLEAN, b \in BOOLEAN, r \in BOOLEAN, w \in BOOLEAN :
           parser = Locals(NoParser, e, b, r, w)

\* parse: one pass of "for line in self.lines".
InterestLine ==
    /\ parser.pc = "loop"
    /\ Len(parser.lines) < MaxInterestLines
    /\ \E physical \in InterestLines : parser' = Iterate(parser, physical)

InterestNext ==
    \/ InterestLine /\ UNCHANGED parserRest
    \/ ParseEnd /\ UNCHANGED parserRest

InterestSpec == InterestInit /\ [][InterestNext]_vars

\* ------------------------------------------------------------------ claims

OnStack(n) == \E i \in 1..Len(stack) : stack[i].node = n
IsDigest(fp) == fp # NoneCs /\ fp # NO_SUCH_FILE

\* C1: after a call of Node.make on a node has ended, by return or by an
\* exception, the making flag of the node is false.
C1_MakingClearedOnExit == \A n \in Nodes : ~OnStack(n) => ~making[n]

\* C2: make terminates on every graph, cycles included: no node is entered
\* while it is on the call stack (neither twice on the stack, nor refused by
\* the assertion of a nested make), and every running call comes to its end.
C2_NoReentry ==
    /\ \A i, j \in 1..Len(stack) : stack[i].node = stack[j].node => i = j
    /\ fault.kind = "making" => fault.depth = 0
C2_MakeTerminates == []C2_NoReentry /\ ((stack # <<>>) ~> (stack = <<>>))
\* An edge of a cycle through two nodes has been pruned: the inner call is
\* past a source made by the outer one.
C2_Witness ==
    /\ Len(stack) = 2
    /\ Top.pc = "check"
    /\ \E p \in Range(sources[Top.node]) : files[p].producer = stack[1].node

C3_PruneStep ==
    (/\ stack # <<>>
     /\ Top.pc = "sources"
     /\ TopProducer # NoNode
     /\ making[TopProducer])
    => (/\ Len(stack') = Len(stack)
        /\ Top'.node = Top.node
        /\ Top'.rv = Top.rv
        /\ Top'.runs = Top.runs
        /\ Top'.pc \in {"sources", "check"}
        /\ (Top'.pc = "sources" => Top'.i = Top.i + 1)
        /\ UNCHANGED <<disk, files, snapshots, making, failed_dep, fault>>)
FlipsOwnSource(n) ==
    /\ recipe[n].flip
    /\ Range(products[n]) \cap Range(sources[n]) # {}
    /\ lastRet.moved = lastRet.runs

\* C4 as stated: a make call on a node whose recipe succeeds and changes one
\* of the sources of the node at every run, and in which the recipe is due,
\* ends with ERROR after exactly 5 runs, with failed_dep the node itself.
C4_FiveRunsThenError ==
    (/\ lastRet.node # NoNode
     /\ FlipsOwnSource(lastRet.node)
     /\ lastRet.why \notin {"run", "source"}
     /\ lastRet.runs + lastRet.defers > 0)
    => (/\ lastRet.rv = Error
        /\ lastRet.runs = Patience
        /\ lastRet.why = "settle")
\* C4 as amended: the same of a call that runs the recipe and never defers
\* it; and no call runs a recipe more than 5 times.
C4_FiveRunsUnlessDeferred ==
    /\ \A i \in 1..Len(stack) :
         /\ stack[i].runs + stack[i].defers <= Patience
         /\ stack[i].patience <= Patience
         /\ stack[i].why = "settle" => failed_dep[stack[i].node] = stack[i].node
    /\ (/\ lastRet.node # NoNode
        /\ FlipsOwnSource(lastRet.node)
        /\ lastRet.why \notin {"run", "source"}
        /\ lastRet.runs > 0
        /\ lastRet.defers = 0)
       => (/\ lastRet.rv = Error
           /\ lastRet.runs = Patience
           /\ lastRet.why = "settle")
C4_Witness ==
    /\ lastRet.node # NoNode
    /\ FlipsOwnSource(lastRet.node)
    /\ lastRet.why = "settle"
    /\ lastRet.runs = Patience
    /\ lastRet.defers = 0

\* C5: make returns without a run of the recipe only if the products of the
\* node exist; a missing product makes the recipe run although no source
\* changed.
C5_RunsWhenProductMissing ==
    (/\ lastRet.node # NoNode
     /\ lastRet.rv # Error
     /\ lastRet.runs = 0
     /\ lastRet.defers = 0)
    => lastRet.built

\* C6: while no make call is in progress on a node, its snapshot record is
\* absent or is the one a successfully completed run was built from.
C6_SnapshotsFromSuccessfulRun ==
    \A n \in Nodes : ~OnStack(n) => snapshots[n] \in {NoneSnap, goodSnap[n]}

\* The source p of a node whose record holds fp for it is as recorded, or
\* has been rewritten since with the same bytes.
SameBytes(p, fp) ==
    /\ files[p].checksum = fp
    /\ IF disk[p].exists
       THEN IsDigest(fp) /\ Md5(disk[p].content) = fp /\ files[p].mtime <= disk[p].mtime
       ELSE fp = NO_SUCH_FILE
Rewritten(p) == disk[p].exists /\ files[p].mtime < disk[p].mtime

\* C7: a file rewritten with the same bytes and a newer mtime has the
\* fingerprint it had (and the cached mtime follows), and make does not run
\* the recipe of a node whose record is up to date with such sources.
C7_CheckStep ==
    LET n == Top.node
        k == Len(sources[n])
    IN  (/\ stack # <<>>
         /\ Top.pc = "check"
         /\ snapshots[n] # NoneSnap
         /\ \A i \in 1..k : SameBytes(sources[n][i], snapshots[n][i])
         /\ \E i \in 1..k : Rewritten(sources[n][i]))
        => (/\ Len(stack') = Len(stack)
            /\ Top'.pc = "return"
            /\ Top'.rv = Top.rv
            /\ Top'.runs = Top.runs
            /\ snapshots' = snapshots
            /\ fault' = fault
            /\ \A i \in 1..k :
                 /\ files'[sources[n][i]].checksum = snapshots[n][i]
                 /\ disk[sources[n][i]].exists
                      => files'[sources[n][i]].mtime = disk[sources[n][i]].mtime)
C7_ContentOverMtime == [][C7_CheckStep]_vars
\* Such a comparison is due: the record of the node is up to date, and a
\* source was rewritten with the same bytes after its snapshot was taken.
C7_Witness ==
    /\ stack # <<>>
    /\ Top.pc = "check"
    /\ snapshots[Top.node] # NoneSnap
    /\ \A i \in 1..Len(sources[Top.node]) :
         SameBytes(sources[Top.node][i], snapshots[Top.node][i])
    /\ \E i \in 1..Len(sources[Top.node]) : Rewritten(sources[Top.node][i])

\* C8: two snapshot calls of a path between which the file keeps its mtime
\* (or stays absent) return the same fingerprint, and the second one does
\* not read the file; the calls share the record that factory keeps.
C8_SnapshotStep ==
    \A p \in Paths :
       (/\ SnapshotCall(p)
        /\ obs[p].seen
        /\ obs[p].exists = disk[p].exists
        /\ disk[p].exists => obs[p].mtime = disk[p].mtime)
       => (/\ lastSnap'.fault = ""
           /\ lastSnap'.fp = obs[p].fp
           /\ ~lastSnap'.read)
C8_SnapshotStable == [][C8_SnapshotStep]_vars
\* A digest was returned without reading the file.
C8_Witness ==
    /\ lastSnap.path # ""
    /\ lastSnap.fault = ""
    /\ IsDigest(lastSnap.fp)
    /\ ~lastSnap.read

\* C9: snapshot of a missing path fails when the cached record is a digest,
\* leaving the record as it was, and returns NO_SUCH_FILE otherwise.
C9_SnapshotStep ==
    \A p \in Paths :
       (SnapshotCall(p) /\ ~disk[p].exists)
       => IF p \in DOMAIN files /\ IsDigest(files[p].checksum)
          THEN /\ lastSnap'.fault = "vanished"
               /\ files'[p] = files[p]
          ELSE /\ lastSnap'.fault = ""
               /\ lastSnap'.fp = NO_SUCH_FILE
               /\ files'[p].checksum = NO_SUCH_FILE
C9_VanishedFails == [][C9_SnapshotStep]_vars
C9_Witness == lastSnap.fault = "vanished" /\ IsDigest(files[lastSnap.path].checksum)

\* C10: snapshot of a file whose mtime is lower than the cached one fails,
\* and leaves the cached mtime and checksum as they were.
C10_SnapshotStep ==
    \A p \in Paths :
       (/\ SnapshotCall(p)
        /\ disk[p].exists
        /\ p \in DOMAIN files
        /\ IsDigest(files[p].checksum)
        /\ disk[p].mtime < files[p].mtime)
       => (/\ lastSnap'.fault = "mtime decreased"
           /\ files'[p] = files[p])
C10_MtimeDecreaseFails == [][C10_SnapshotStep]_vars
C10_Witness ==
    /\ lastSnap.fault = "mtime decreased"
    /\ disk[lastSnap.path].mtime < files[lastSnap.path].mtime

\* The nodes that n needs: the producers of its sources.
Children(srcs, fbp, n) ==
    {fbp[srcs[n][i]].producer : i \in 1..Len(srcs[n])} \ {NoNode}
\* The nodes reached from root through at most k source-to-producer edges.
RECURSIVE ReachedFrom(_, _, _, _)
ReachedFrom(srcs, fbp, root, k) ==
    IF k = 0
    THEN {root}
    ELSE LET R == ReachedFrom(srcs, fbp, root, k - 1)
         IN  R \cup UNION {Children(srcs, fbp, n) : n \in R}
Reachable(srcs, fbp, root) == ReachedFrom(srcs, fbp, root, Cardinality(Nodes))

\* The cache file was written after a make of some node that did not fail,
\* and this is a later process with the same nodes and source lists that
\* has called load_cache before any make, and has found the files and the
\* cache file as they were left.
RoundTrip ==
    /\ session.saved
    /\ session.afterMake
    /\ ~session.damaged
    /\ session.found = session.disk
    /\ session.proc > NoSession.proc
    /\ sources = session.sources
    /\ session.loaded = "ok"
    /\ session.loadCalls = 0

\* C11: after such a round trip, every node that save_cache wrote a record
\* for has an equal record as long as no make was called, and the make of
\* the saved node returns UNCHANGED without a run of any recipe.
C11_CacheRoundTrip ==
    RoundTrip =>
       /\ (calls = 0) =>
             \A n \in Reachable(sources, files, session.root) :
                session.snapshots[n] # NoneSnap => snapshots[n] = session.snapshots[n]
       /\ (stack = <<>> /\ fault = NoFault /\ lastRet.node = session.root
              /\ lastRet.depth = 0)
          => (lastRet.rv = Unchanged /\ lastRet.work = 0)
\* The make of a node that needs the product of another node has returned
\* after a round trip.
C11_Witness ==
    /\ RoundTrip
    /\ stack = <<>>
    /\ lastRet.node = session.root
    /\ lastRet.depth = 0
    /\ lastRet.rv = Unchanged
    /\ \E p \in Range(sources[session.root]) :
         /\ files[p].producer \notin {NoNode, session.root}
         /\ snapshots[files[p].producer] # NoneSnap
         /\ IsDigest(files[p].checksum)

\* The entries of a cache file as load_cache reads them: a line that is not
\* a source line (or the first line) holds the product, the source lines
\* that follow hold the sources and their checksums.
EntryStarts(lines) ==
    {i \in 1..Len(lines) : i = 1 \/ ~IsSourceLine(lines[i])}
EntryProducer(lines, i, fbp) ==
    LET product == PathOf(Slice(lines[i], 0, -1))
    IN  IF product \in DOMAIN fbp THEN fbp[product].producer ELSE NoNode

\* C12: load_cache gives a node the snapshots of an entry only if the node
\* is the producer of the product of the entry and its list of sources is
\* the recorded one; the snapshots of every other node stay as they were.
C12_LoadStep ==
    (session.loaded = "" /\ session'.loaded # "")
    => \A n \in Nodes :
          \/ snapshots'[n] = snapshots[n]
          \/ \E i \in EntryStarts(cache.lines) :
                LET r == ReadSources(cache.lines, i + 1)
                IN  /\ r.fault = ""
                    /\ EntryProducer(cache.lines, i, files) = n
                    /\ r.sources = sources[n]
                    /\ snapshots'[n] = r.snapshots
C12_LoadHonoursSources == [][C12_LoadStep]_vars
\* load_cache has met an entry of a node whose sources are not the recorded
\* ones, and has left the node without snapshots.
C12_Witness ==
    /\ session.loaded = "ok"
    /\ calls = 0
    /\ \E i \in EntryStarts(cache.lines) :
         LET n == EntryProducer(cache.lines, i, files)
         IN  /\ n # NoNode
             /\ ReadSources(cache.lines, i + 1).fault = ""
             /\ ReadSources(cache.lines, i + 1).sources # sources[n]
             /\ snapshots[n] = NoneSnap

\* C13: load_cache returns normally whatever the cache file is like.
C13_LoadNeverRaises == session.loaded \in {"", "ok"}

\* The lines of a cache file that are not source lines.
ProductLines(lines) == {i \in 1..Len(lines) : ~IsSourceLine(lines[i])}

\* C14: save_cache visits every node that is reachable from final once, and
\* writes for each of them that has snapshots one line with its first
\* product, followed by one line per source in the order of the sources;
\* it writes nothing else.
C14_SaveStep ==
    (~session.saved /\ session'.saved)
    => LET root    == session'.root
           order   == all_producers(sources, files, root)
           written == {n \in Reachable(sources, files, root) : snapshots[n] # NoneSnap}
           lines   == cache'.lines
       IN  /\ Range(order) = Reachable(sources, files, root)
           /\ \A i, j \in 1..Len(order) : order[i] = order[j] => i = j
           /\ \A n \in written :
                 Cardinality({i \in ProductLines(lines) :
                                 lines[i] = <<products[n][1], "\n">>}) = 1
           /\ \A i \in ProductLines(lines) :
                 \E n \in written :
                    /\ lines[i] = <<products[n][1], "\n">>
                    /\ Len(lines) >= i + Len(sources[n])
                    /\ \A k \in 1..Len(sources[n]) :
                          lines[i + k] = SourceLine(snapshots[n][k], sources[n][k])
                    /\ (Len(lines) > i + Len(sources[n]))
                          => ~IsSourceLine(lines[i + Len(sources[n]) + 1])
           /\ cache'.exists
           /\ lines # <<>> => 1 \in ProductLines(lines)
C14_SaveWritesReachable == [][C14_SaveStep]_vars
\* A cache file was written for a node that two of its sources lead to.
C14_Witness ==
    /\ session.saved
    /\ ~session.damaged
    /\ session.sources = DiamondGraph.sources
    /\ session.root = 1
    /\ \A n \in Nodes : session.snapshots[n] # NoneSnap
    /\ Cardinality(ProductLines(cache.lines)) = Cardinality(Nodes)

\* C15: once a recipe has failed or the contents of a node did not settle,
\* every step of the call is the return of ERROR from make to its caller:
\* no recipe runs, no source is made or looked at, until the top-level make
\* has returned ERROR.
C15_ErrorStep ==
    (stack # <<>> /\ Top.pc = "return" /\ Top.rv = Error)
    => /\ Len(stack') = Len(stack) - 1
       /\ UNCHANGED <<disk, files, snapshots, fault>>
       /\ lastRet'.node = Top.node
       /\ lastRet'.rv = Error
       /\ IF stack' = <<>>
          THEN lastRet'.depth = 0
          ELSE /\ SubSeq(stack', 1, Len(stack') - 1) = SubSeq(stack, 1, Len(stack) - 2)
               /\ Top'.node = stack[Len(stack) - 1].node
               /\ Top'.pc = "return"
               /\ Top'.rv = Error
               /\ Top'.runs = stack[Len(stack) - 1].runs
               /\ Top'.i = stack[Len(stack) - 1].i
C15_ErrorBubblesUp == [][C15_ErrorStep]_vars
\* A node returns ERROR to a caller that has not yet made the producer of
\* its next source.
C15_Witness ==
    /\ Len(stack) >= 2
    /\ Top.pc = "return"
    /\ Top.rv = Error
    /\ LET c == stack[Len(stack) - 1]
       IN  /\ c.i < Len(sources[c.node])
           /\ files[sources[c.node][c.i + 1]].producer # NoNode

\* C16: after a top-level make has returned ERROR, failed () of the node is
\* the node, itself or reachable through sources, whose recipe failed or
\* whose contents did not settle in that call; after it has returned
\* UNCHANGED or CHANGED, failed () is None.
C16_FailedNamesCulprit ==
    (stack = <<>> /\ fault = NoFault /\ lastRet.node # NoNode)
    => IF lastRet.rv = Error
       THEN /\ failed_dep[lastRet.node] # NoNode
            /\ failed_dep[lastRet.node] = lastRet.culprit
            /\ lastRet.culprit \in Reachable(sources, files, lastRet.node)
            /\ failed_dep[lastRet.culprit] = lastRet.culprit
       ELSE failed_dep[lastRet.node] = NoNode
\* The make of a node has failed because of another node.
C16_Witness ==
    /\ stack = <<>>
    /\ fault = NoFault
    /\ lastRet.node # NoNode
    /\ lastRet.rv = Error
    /\ failed_dep[lastRet.node] \notin {NoNode, lastRet.node}

\* C17: make returns UNCHANGED only if no recipe was run during the call,
\* and CHANGED only if some recipe, of the node or of a node made for it,
\* was run.
C17_ReturnReflectsWork ==
    (lastRet.node # NoNode)
    => /\ lastRet.rv = Unchanged => lastRet.work = 0
       /\ lastRet.rv = Changed => lastRet.work > 0

C19_ChecksumTextRoundTrip ==
    /\ (codec.pc \in {"written", "read"})
       => /\ codec.checksum = NO_SUCH_FILE \/ Len(codec.checksum) = DigestLen
          /\ Len(codec.text) = cs_str_len
          /\ codec.fault = ""
          /\ (codec.text = NoSuchFileStr) = (codec.checksum = NO_SUCH_FILE)
    /\ (codec.pc = "read") => codec.back = codec.checksum
\* A digest with a byte below 16 has been written and read back.
C19_Witness ==
    /\ codec.pc = "read"
    /\ codec.checksum # NO_SUCH_FILE
    /\ codec.back = codec.checksum
    /\ \E i \in 1..DigestLen : codec.checksum[i] < 16

\* The token that ends the code of a line "l.N code": the text from the last
\* backslash of the line on, if letters alone follow it; NoneText otherwise.
IsLetter(ch) ==
    ch \in {"a", "b", "c", "d", "e", "f", "g", "h", "i", "j", "k", "l", "m",
            "n", "o", "p", "q", "r", "s", "t", "u", "v", "w", "x", "y", "z"}
CodeToken(line) ==
    LET b == FindLast(line, <<"\\">>, 1)
    IN  IF /\ re_line(line).matched
           /\ re_line(line).code # NoneText
           /\ b > 0
           /\ b < Len(line)
           /\ \A k \in b + 1..Len(line) : IsLetter(line[k])
        THEN SubSeq(line, b, Len(line))
        ELSE NoneText

\* The step reads a line "l.N code" whose code ends in a token, with errors
\* enabled.
ReadsLineOfToken ==
    /\ parser.pc = "loop"
    /\ parser.errors
    /\ Len(parser'.lines) = Len(parser.lines) + 1
    /\ CodeToken(parser'.lines[Len(parser'.lines)]) # NoneText

\* The lines read so far end with a line "! Undefined control sequence."
\* and lines after it of which none is a line "l.N".
AfterUndefined ==
    \E u \in 1..Len(parser.lines) :
        /\ parser.lines[u] = LineUCS
        /\ \A k \in u + 1..Len(parser.lines) : ~re_line(parser.lines[k]).matched

\* The step yields one diagnostic, of kind error, with the line of the line
\* read and a text that holds the token.
YieldsTheToken ==
    LET l == parser'.lines[Len(parser'.lines)]
        d == parser'.out[Len(parser'.out)]
    IN  /\ Len(parser'.out) = Len(parser.out) + 1
        /\ SubSeq(parser'.out, 1, Len(parser.out)) = parser.out
        /\ d.kind = "error"
        /\ d.line = re_line(l).line
        /\ Find(d.text, CodeToken(l)) # 0

\* C20 as stated: when a line "! Undefined control sequence." is followed by
\* lines that end with a line "l.N code" whose code ends in a token, parse
\* with errors enabled yields exactly one diagnostic of kind error for it,
\* with line N and a text that names the token.
C20_Step == (ReadsLineOfToken /\ AfterUndefined) => YieldsTheToken
C20_OpenStep ==
    LET l == parser'.lines[Len(parser'.lines)]
        d == parser'.out[Len(parser'.out)]
        yieldsOne == /\ Len(parser'.out) = Len(parser.out) + 1
                     /\ SubSeq(parser'.out, 1, Len(parser.out)) = parser.out
                     /\ d.kind = "error"
                     /\ d.line = re_line(l).line
        named == TextUCSHead \o CodeToken(l) \o <<".">>
    IN  (/\ ReadsLineOfToken
         /\ parser.parsing
         /\ ~parser.skipping
         /\ Find(l, TextPdfTeX) = 0)
        => /\ ~parser'.parsing
           /\ parser'.pc = "loop"
           /\ (parser.error = TextUCS /\ CodeToken(l) \notin parser.cseqs)
              => yieldsOne /\ d.text = named /\ CodeToken(l) \in parser'.cseqs
           /\ (parser.error = TextUCS /\ CodeToken(l) \in parser.cseqs)
              => parser'.out = parser.out
           /\ (StartsWith(parser.error, TextUCSHead) /\ parser.error # TextUCS)
              => yieldsOne /\ d.text = parser.error
NamedBy(out, seq) ==
    {i \in 1..Len(out) : /\ out[i].kind = "error"
                         /\ out[i].text = TextUCSHead \o seq \o <<".">>}

\* The step reads, with errors enabled, a line "l.N code" that names a
\* control sequence for an error "Undefined control sequence." whose text
\* is being parsed.
NamesAtLine ==
    LET l == parser'.lines[Len(parser'.lines)]
    IN  /\ parser.pc = "loop"
        /\ parser.errors
        /\ Len(parser'.lines) = Len(parser.lines) + 1
        /\ parser.parsing
        /\ ~parser.skipping
        /\ parser.error = TextUCS
        /\ re_line(l).matched
        /\ re_cseq(l).matched
        /\ Find(l, TextPdfTeX) = 0

\* C21: within one pass of parse, no two diagnostics of kind error name the
\* same undefined control sequence: a line "l.N code" that names a control
\* sequence which a diagnostic of this pass names already yields nothing,
\* and one that names a control sequence which no line of this pass has
\* named yet yields one diagnostic of kind error with that name, so that
\* distinct control sequences are each reported once.
C21_Step ==
    LET l   == parser'.lines[Len(parser'.lines)]
        seq == re_cseq(l).seq
    IN  /\ \A i, j \in 1..Len(parser'.out) :
               (/\ i < j
                /\ parser'.out[i].kind = "error"
                /\ parser'.out[j].kind = "error"
                /\ StartsWith(parser'.out[i].text, TextUCSHead))
               => parser'.out[i].text # parser'.out[j].text
        /\ NamesAtLine
           => /\ NamedBy(parser.out, seq) # {} => parser'.out = parser.out
              /\ seq \notin parser.cseqs
                 => /\ Len(parser'.out) = Len(parser.out) + 1
                    /\ SubSeq(parser'.out, 1, Len(parser.out)) = parser.out
                    /\ NamedBy(parser'.out, seq) = {Len(parser'.out)}
ReadsBoxLine ==
    LET l == parser'.lines[Len(parser'.lines)]
    IN  /\ parser.pc = "loop"
        /\ Len(parser'.lines) = Len(parser.lines) + 1
        /\ re_badbox(l)
        /\ re_atline(l).matched
        /\ re_atline(l).line # <<>>
        /\ re_atline(l).last \notin {<<>>, NoneText}

\* The step yields exactly one diagnostic, of the kind given, with the line
\* and the last line of the range of the line read.
YieldsBox(kind) ==
    LET l == parser'.lines[Len(parser'.lines)]
        d == parser'.out[Len(parser'.out)]
    IN  /\ Len(parser'.out) = Len(parser.out) + 1
        /\ SubSeq(parser'.out, 1, Len(parser.out)) = parser.out
        /\ d.kind = kind
        /\ d.line = re_atline(l).line
        /\ d.last = re_atline(l).last

\* C22 as stated: for every line of the log that matches the bad box pattern
\* and holds a range "at lines N--M", parse with boxes enabled yields exactly
\* one diagnostic of kind box with line N and last M, and parse with boxes
\* disabled yields no diagnostic for the line.
C22_Step ==
    ReadsBoxLine => IF parser.boxes THEN YieldsBox("box")
                    ELSE parser'.out = parser.out
C22_OpenStep ==
    LET l == parser'.lines[Len(parser'.lines)]
        d == parser'.out[Len(parser'.out)]
    IN  ReadsBoxLine
        => IF ~parser.parsing /\ ~parser.skipping /\ parser.prefix = NoneText
           THEN /\ parser'.skipping
                /\ IF parser.boxes
                   THEN /\ YieldsBox("warning")
                        /\ d.text = Slice(l, 0, re_atline(l).start)
                        /\ d.file = TopOf(parser.pos)
                        /\ d.page = IntValue(parser.page)
                   ELSE parser'.out = parser.out
           ELSE \/ parser'.out = parser.out
                \/ /\ Len(parser'.out) = Len(parser.out) + 1
                   /\ parser'.out[Len(parser'.out)].line = Absent
RECURSIVE LogicalFrom(_, _, _)
LogicalFrom(physical, i, accu) ==
    IF i > Len(physical) THEN <<>>
    ELSE IF Len(physical[i]) = 79
    THEN LogicalFrom(physical, i + 1, accu \o physical[i])
    ELSE <<accu \o physical[i]>> \o LogicalFrom(physical, i + 1, <<>>)
Logical(physical) == LogicalFrom(physical, 1, <<>>)

\* The lines end in the text after a bad box: one of them is a bad box line
\* and no line after it is blank.
AfterBadBox(lines) ==
    \E b \in 1..Len(lines) :
        /\ re_badbox(lines[b])
        /\ \A k \in b + 1..Len(lines) : lines[k] # <<>>

\* The step reads a line and changes neither the stack of open files nor the
\* page nor the diagnostics.
ReadsWithoutEffect ==
    /\ parser'.pos = parser.pos
    /\ parser'.last_file = parser.last_file
    /\ parser'.page = parser.page
    /\ parser'.out = parser.out

ReadsLine ==
    /\ parser.pc = "loop"
    /\ Len(parser'.lines) = Len(parser.lines) + 1

\* C23 as stated: after a bad box line, with or without interest in boxes,
\* exactly the lines up to the next blank physical line are skipped: none of
\* them changes the stack of open files or the page or yields a diagnostic,
\* and the first line after the blank line is processed normally again.
C23_Step ==
    /\ parser.skipping <=> AfterBadBox(parser.lines)
    /\ (ReadsLine /\ AfterBadBox(parser.lines)) => ReadsWithoutEffect
C23_SkipToBlankPhysical == [][C23_Step]_vars

\* C23 as amended: the same of the lines as parse matches them, that is
\* after every line of 79 characters is joined with the line after it: the
\* text after a bad box line is skipped up to the next blank joined line; a
\* blank physical line that follows a line of 79 characters is the end of
\* that line and does not end the skipped text, and a bad box text that
\* follows a line of 79 characters is not a bad box line. (Logs without
\* errors and warnings.)
C23_LogicalStep ==
    /\ parser.skipping <=> AfterBadBox(Logical(parser.lines))
    /\ (ReadsLine /\ AfterBadBox(Logical(parser.lines))) => ReadsWithoutEffect
C23_SkipToBlankLogical == [][C23_LogicalStep]_vars
\* The log is a bad box line, "(f", a blank line and "(f": the first "(f"
\* was skipped, the second one has opened the file f.
C23_Witness ==
    /\ parser.lines = <<LineBox, LineOpen, LineBlank, LineOpen>>
    /\ parser.pos = <<NoneText, <<"f">>>>
    /\ ~parser.skipping

\* The current pass of parse has the flags and the self.lines of the pass
\* before it.
SamePass ==
    /\ logcheck.prev.valid
    /\ parser.errors = logcheck.prev.errors
    /\ parser.boxes = logcheck.prev.boxes
    /\ parser.refs = logcheck.prev.refs
    /\ parser.warnings = logcheck.prev.warnings
    /\ logcheck.given.held = logcheck.prev.held
    /\ logcheck.given.lines = logcheck.prev.lines

\* C24: parse is deterministic and keeps nothing from one pass to the next:
\* a pass with the flags and the lines of the pass before it, on the same
\* LogCheck or after readlog has read the same lines again, yields the same
\* diagnostics in the same order with the same fields, and raises where the
\* pass before raised.
C24_SamePassSameDiagnostics ==
    SamePass
    => /\ parser.pc = "loop"
          => /\ Len(parser.out) <= Len(logcheck.prev.out)
             /\ parser.out = SubSeq(logcheck.prev.out, 1, Len(parser.out))
       /\ parser.pc \in {"done", "raised"}
          => /\ parser.out = logcheck.prev.out
             /\ parser.fault = logcheck.prev.fault
\* The second pass over the log with the undefined control sequence \b twice
\* has ended, with errors enabled as the first: it has yielded the one
\* diagnostic again.
C24_Witness ==
    /\ SamePass
    /\ parser.pc = "done"
    /\ parser.errors
    /\ parser.lines = <<LineUCS, LineL7, LineBlank, LineUCS, LineL7, LineBlank>>
    /\ Len(parser.out) = 1
    /\ parser.out[1].text = TextUCSHead \o <<"\\", "b", ".">>

\* The file has no first line or its first line is not the head of a log of
\* the compiler, or the file cannot be opened.
NoCompilerLog(file) ==
    \/ ~file.exists
    \/ file.text = <<>>
    \/ ~StartsWith(file.text, TextThisIs)

\* C25: when readlog is given a file that cannot be opened, or whose first
\* line is missing or is not the head of a log of the compiler, it returns
\* False and the LogCheck holds no lines, also when an earlier readlog on it
\* had read a log with errors; a call of parse on a LogCheck without lines
\* yields no diagnostic and raises nothing.
C25_Step ==
    /\ (logcheck'.reads = logcheck.reads + 1 /\ NoCompilerLog(logcheck'.file))
       => /\ logcheck'.ret = "False"
          /\ ~logcheck'.held
          /\ logcheck'.lines = <<>>
    /\ (logcheck'.passes = logcheck.passes + 1 /\ ~logcheck.held)
       => /\ parser'.pc = "done"
          /\ parser'.out = <<>>
          /\ parser'.fault = ""
C25_FailedReadlogHoldsNoLines == [][C25_Step]_vars
\* readlog has read a log with an error and parse has yielded it; then
\* readlog was given a file that is no log, and the second call of parse has
\* ended without a diagnostic.
C25_Witness ==
    /\ logcheck.reads = 2
    /\ logcheck.passes = 2
    /\ NoCompilerLog(logcheck.file)
    /\ logcheck.ret = "False"
    /\ logcheck.prev.valid
    /\ logcheck.prev.held
    /\ Len(logcheck.prev.out) = 1
    /\ logcheck.prev.out[1].kind = "error"
    /\ ~logcheck.given.held
    /\ parser.pc = "done"
    /\ parser.out = <<>>

\* The step reads a line of 79 characters and holds it back: nothing is
\* matched against it, it is joined with what was held back before.
HoldsBack ==
    LET l == parser'.lines[Len(parser'.lines)]
    IN  parser' = [parser EXCEPT !.lines = Append(parser.lines, l),
                                 !.accu = parser.accu \o l]

\* C26 as stated: every physical line of exactly 79 characters is taken as
\* broken by TeX and is joined with the physical line after it before any
\* pattern is matched against it, in every mode of the parser, also while
\* the text of an error is parsed.
C26_Step ==
    (ReadsLine /\ Len(parser'.lines[Len(parser'.lines)]) = 79) => HoldsBack
C26_JoinInEveryMode == [][C26_Step]_vars

\* C26 as amended: outside the text of an error, every physical line of
\* exactly 79 characters is held back and joined with the lines after it, up
\* to the first line of another length, before any pattern is matched (the
\* stack of open files is updated from the joined line); while the text of
\* an error is parsed no line is joined: a line of 79 characters is matched
\* on its own, and one that matches "l.N code" ends the error and, with
\* errors enabled and the error not suppressed, yields its diagnostic.
C26_ModeStep ==
    LET l      == parser'.lines[Len(parser'.lines)]
        joined == parser.accu \o l
    IN  ReadsLine
        => /\ (Len(l) = 79 /\ ~parser.parsing) => HoldsBack
           /\ (Len(l) = 79 /\ parser.parsing)
              => /\ parser'.accu = <<>>
                 /\ re_line(l).matched
                    => /\ ~parser'.parsing
                       /\ (parser.errors /\ parser.error # NoneText)
                          => /\ Len(parser'.out) = Len(parser.out) + 1
                             /\ parser'.out[Len(parser'.out)].line = re_line(l).line
           /\ (/\ Len(l) # 79
               /\ parser.accu # <<>>
               /\ ~parser.parsing
               /\ ~parser.skipping
               /\ parser.prefix = NoneText)
              => /\ parser'.accu = <<>>
                 /\ parser'.pos = update_file(joined, parser.pos, parser.last_file).stack
C26_JoinOutsideErrors == [][C26_ModeStep]_vars
\* The log is "! X" and a line "l.7 xxx..." of 79 characters: the line has
\* ended the error, whose diagnostic has line 7.
C26_Witness ==
    /\ parser.errors
    /\ parser.lines = <<LineBang, LineL79>>
    /\ ~parser.parsing
    /\ Len(parser.out) = 1
    /\ parser.out[1].line = <<"7">>

\* C27: after clean() is called on any node, the node of the main LaTeX
\* document included, no product of that node or of a node reachable from it
\* through the producers of sources exists on disk; clean ends on cyclic
\* graphs, does not raise, and leaves every making flag false.
C27_Step ==
    (calls' = calls + 1 /\ lastRet'.why = "clean")
    => /\ \A m \in Reachable(sources, files, lastRet'.node) :
              \A p \in Range(products[m]) : ~disk'[p].exists
       /\ fault' = NoFault
       /\ \A n \in Nodes : ~making'[n]
C27_CleanRemovesProducts == [][C27_Step]_vars

\* The step reads a line that begins with "***" while an error is open.
ReadsStarsInError ==
    /\ ReadsLine
    /\ parser.parsing
    /\ Slice(parser'.lines[Len(parser'.lines)], 0, 3) = TextStars

\* C28: while an error is open, a line that begins with "***" closes it: with
\* errors enabled parse yields exactly one diagnostic, of kind abort, with
\* the text that parse holds for the open error (None for an undefined
\* control sequence that was suppressed as already reported) and the rest of
\* the line as why; no diagnostic of kind error is yielded for the error; the
\* parser leaves the parsing of the error's text and skips up to the next
\* blank line. With errors disabled nothing is yielded.
C28_Step ==
    LET l == parser'.lines[Len(parser'.lines)]
        d == parser'.out[Len(parser'.out)]
    IN  ReadsStarsInError
        => /\ ~parser'.parsing
           /\ parser'.skipping
           /\ parser'.pc = "loop"
           /\ ~re_cseq(l).matched => parser'.error = parser.error
           /\ IF parser.errors
              THEN /\ Len(parser'.out) = Len(parser.out) + 1
                   /\ SubSeq(parser'.out, 1, Len(parser.out)) = parser.out
                   /\ d.kind = "abort"
                   /\ d.text = parser'.error
                   /\ d.why = Slice(l, 4, Len(l))
              ELSE parser'.out = parser.out
RECURSIVE TokensFrom(_, _)
TokensFrom(line, i) ==
    IF i > Len(line) THEN <<>>
    ELSE IF line[i] = "("
    THEN LET n == NameLen(line, i + 1)
         IN  <<[open |-> TRUE, name |-> SubSeq(line, i + 1, i + n)]>>
             \o TokensFrom(line, i + 1 + n)
    ELSE IF line[i] = ")"
    THEN <<[open |-> FALSE, name |-> NoneText]>> \o TokensFrom(line, i + 1)
    ELSE TokensFrom(line, i + 1)

\* The stack after the tokens: an open token pushes its name, a close token
\* pops; enough is FALSE when a close token has found the stack empty. last
\* is the name pushed or the entry popped by the last token.
RECURSIVE ApplyTokens(_, _, _)
ApplyTokens(tokens, pos, last) ==
    IF tokens = <<>> THEN [stack |-> pos, last |-> last, enough |-> TRUE]
    ELSE IF Head(tokens).open
    THEN ApplyTokens(Tail(tokens), Append(pos, Head(tokens).name), Head(tokens).name)
    ELSE IF pos = <<>> THEN [stack |-> pos, last |-> last, enough |-> FALSE]
    ELSE ApplyTokens(Tail(tokens), SubSeq(pos, 1, Len(pos) - 1), pos[Len(pos)])

\* The step reads a line without message, outside the text of an error or of
\* a warning and outside skipped text.
ReadsPlainLine ==
    LET l == parser'.lines[Len(parser'.lines)]
    IN  /\ ReadsLine
        /\ ~parser.parsing
        /\ ~parser.skipping
        /\ parser.prefix = NoneText
        /\ parser.accu = <<>>
        /\ Len(l) # 79
        /\ l # <<>>
        /\ ~StartsWith(l, <<"!">>)
        /\ l # TextRunaway
        /\ Slice(l, 0, 17) # TextWritten
        /\ ~StartsWith(l, TextMissing)
        /\ ~re_reference(l).matched
        /\ ~re_label(l).matched
        /\ Find(l, TextWarning) = 0
        /\ ~re_badbox(l)
        /\ ~re_rawbox(l)

\* The step yields a diagnostic.
YieldsOne ==
    /\ ReadsLine
    /\ Len(parser'.out) = Len(parser.out) + 1

\* C29 as stated: after a line without message that holds tokens "(name" and
\* ")", the stack of open files is the result of applying every token from
\* left to right (push the name, pop), and every diagnostic yielded later has
\* the file on top of the stack as its file.
C29_Step ==
    LET l == parser'.lines[Len(parser'.lines)]
        r == ApplyTokens(TokensFrom(l, 1), parser.pos, parser.last_file)
    IN  /\ ReadsPlainLine => r.enough /\ parser'.pos = r.stack
        /\ YieldsOne => /\ parser.pos # <<>>
                        /\ parser'.out[Len(parser'.out)].file = TopOf(parser.pos)
C29_LastStep ==
    LET l == parser'.lines[Len(parser'.lines)]
        r == ApplyTokens(TokensFrom(l, 1), parser.pos, parser.last_file)
        d == parser'.out[Len(parser'.out)]
    IN  /\ ReadsPlainLine
           => IF r.enough
              THEN /\ parser'.pc = "loop"
                   /\ parser'.pos = r.stack
                   /\ parser'.last_file = r.last
              ELSE /\ parser'.pc = "raised"
                   /\ parser'.fault = "IndexError"
        /\ YieldsOne
           => /\ d.kind = "warning"
                 => parser.pos # <<>> /\ d.file = TopOf(parser.pos)
              /\ d.kind = "error"
                 => /\ parser.pos # <<>>
                    /\ d.file = IF TopOf(parser.pos) = NoneText THEN parser.last_file
                                ELSE TopOf(parser.pos)
              /\ d.kind = "abort" => d.file = parser.last_file
RECURSIVE MarkersFrom(_, _)
MarkersFrom(line, i) ==
    IF i > Len(line) THEN <<>>
    ELSE IF PageAt(line, i)
    THEN <<Int10(SubSeq(line, i + 1, i + Digits(line, i + 1)))>>
         \o MarkersFrom(line, i + 2 + Digits(line, i + 1))
    ELSE MarkersFrom(line, i + 1)

\* The step yields a diagnostic that has a page.
YieldsWithPage ==
    /\ YieldsOne
    /\ parser'.out[Len(parser'.out)].page # Absent

\* C30 as stated: the page starts at 1 and is one more for every marker
\* "[N]" of a line without message, whatever the numbers N, so that the page
\* of a diagnostic of a warning or of a bad box is 1 plus the number of the
\* markers before it.
C30_Step ==
    LET l == parser'.lines[Len(parser'.lines)]
    IN  /\ parser.lines = <<>> => parser.page = 1
        /\ ReadsPlainLine => parser'.page = parser.page + Len(MarkersFrom(l, 1))
        /\ YieldsWithPage
           => parser'.out[Len(parser'.out)].page = IntValue(parser.page)
C30_PageCountsMarkers == [][C30_Step]_vars

\* C30 as amended: the page starts at 1; a line without message that holds
\* markers "[N]" sets it to the number of the last marker of the line plus
\* one, a line without marker leaves it; the page of a diagnostic of a
\* warning or of a bad box is the page at the line of the message: 1 before
\* any marker, else the number of the last marker processed plus one.
C30_NumberStep ==
    LET l  == parser'.lines[Len(parser'.lines)]
        ms == MarkersFrom(l, 1)
    IN  /\ parser.lines = <<>> => parser.page = 1
        /\ ReadsPlainLine
           => parser'.page = IF ms = <<>> THEN parser.page ELSE ms[Len(ms)] + 1
        /\ (ReadsLine /\ ~ReadsPlainLine) => parser'.page = parser.page
        /\ YieldsWithPage
           => parser'.out[Len(parser'.out)].page = IntValue(parser.page)
C30_PageIsLastNumberPlusOne == [][C30_NumberStep]_vars
\* The log is "[5]" and a bad box line: the diagnostic of the box has page 6
\* after one marker.
C30_Witness ==
    /\ parser.boxes
    /\ parser.lines = <<LinePage5, LineBox>>
    /\ Len(parser.out) = 1
    /\ parser.out[1].page = IntValue(6)

\* C31: compile returns True exactly when the compiler exited with status
\* zero, the log could be opened and begins with the head of a log of the
\* compiler, errors() finds no error in the lines read from it, and the
\* primary product exists; it returns False in every other case, and reads
\* the log only when the status is zero.
C31_CompileSucceedsIff ==
    compiler.pc = "done" =>
        /\ compiler.ret =
               (/\ compiler.status = 0
                /\ ~NoCompilerLog(compiler.file)
                /\ logcheck.file = compiler.file
                /\ logcheck.ret = "True"
                /\ ~errors(logcheck.lines)
                /\ compiler.produced)
        /\ compiler.read = (compiler.status = 0)

\* A second call of compile succeeds after a first one that failed.
C31_Witness ==
    /\ compiler.runs = 2
    /\ compiler.ret
    /\ compiler.status = 0
    /\ compiler.produced
    /\ logcheck.lines # <<>>
    /\ ~errors(logcheck.lines)

\* real_make is about to build the node of the top frame, and a source of
\* that node is missing on disk.
BuildsWithMissingSource ==
    /\ stack # <<>>
    /\ Top.pc = "build"
    /\ \E p \in Range(sources[Top.node]) : ~disk[p].exists

\* The step is a round of the top frame that ends without a call of run: the
\* disk, the record and the run count are as before and no failure of run is
\* noted.
Deferred ==
    /\ Len(stack') = Len(stack)
    /\ stack'[Len(stack')].defers = Top.defers + 1
    /\ stack'[Len(stack')].runs = Top.runs
    /\ stack'[Len(stack')].why # "run"
    /\ disk' = disk
    /\ snapshots' = snapshots
    /\ fault' = NoFault

\* The step is a call of run by the top frame: it returns, or it raises.
Invoked ==
    \/ /\ Len(stack') = Len(stack)
       /\ stack'[Len(stack')].runs = Top.runs + 1
       /\ stack'[Len(stack')].defers = Top.defers
    \/ /\ fault' # NoFault
       /\ fault'.kind = "interrupt"

C32_Step ==
    BuildsWithMissingSource =>
        IF recipe[Top.node].latex THEN Deferred ELSE Invoked

\* C32: when a source of a node is missing on disk at the point where
\* real_make builds, the main document node (the LaTeXDep) defers, its recipe
\* is not invoked and nothing fails, and every other node invokes its
\* recipe.
C32_MainDocumentDefers == [][C32_Step]_vars

C32_KindStep ==
    BuildsWithMissingSource =>
        IF recipe[Top.node].latex THEN Invoked ELSE Deferred

\* C32 as amended: with a source missing on disk, a node that is not a
\* LaTeXDep defers (run is not called, the disk and the record stay, no
\* failure of run is noted), and the LaTeXDep does not defer: its run is
\* called.
C32_OtherNodesDefer == [][C32_KindStep]_vars

\* The LaTeXDep has run although a leaf among its sources is missing.
C32_Witness ==
    /\ stack # <<>>
    /\ recipe[Top.node].latex
    /\ Top.runs > 0
    /\ Top.defers = 0
    /\ \E p \in Range(sources[Top.node]) :
           /\ ~disk[p].exists
           /\ \A n \in Nodes : p \notin Range(products[n])

\* The step ends real_make in the top frame with UNCHANGED or CHANGED.
EndsRealMake ==
    /\ stack # <<>>
    /\ Top.pc # "return"
    /\ Len(stack') = Len(stack)
    /\ stack'[Len(stack')].pc = "return"
    /\ stack'[Len(stack')].rv # Error

\* The record of node n is present and is, source by source, what snapshot
\* returns for the sources of n in the state after the step.
RecordIsCurrent(n) ==
    /\ snapshots'[n] # NoneSnap
    /\ Len(snapshots'[n]) = Len(sources'[n])
    /\ SnapshotAll(files', disk', sources'[n]).fault = ""
    /\ SnapshotAll(files', disk', sources'[n]).fps = snapshots'[n]

C33_Step ==
    /\ EndsRealMake =>
           /\ Top.pc = "check"
           /\ snapshots[Top.node] # NoneSnap
           /\ snapshots' = snapshots
           /\ disk' = disk
           /\ RecordIsCurrent(Top.node)
    /\ (lastRet' # lastRet /\ lastRet'.why # "clean" /\ lastRet'.rv # Error) =>
           RecordIsCurrent(lastRet'.node)

\* C33: when make returns UNCHANGED or CHANGED, the record of the node is
\* present and equals, source by source, what snapshot returns for the
\* sources at that moment; real_make ends with such a value only from the
\* comparison of the sources with the record, in which none differed, and
\* never right after a run of the recipe or a deferral.
C33_ReturnsAtFixpoint == [][C33_Step]_vars

\* make has returned CHANGED after a run that rewrote a source of the node,
\* and a later round found the sources as recorded.
C33_Witness ==
    /\ stack = <<>>
    /\ lastRet.node # NoNode
    /\ lastRet.rv = Changed
    /\ lastRet.runs > 1
    /\ lastRet.moved > 0
    /\ snapshots[lastRet.node] = SnapshotAll(files, disk, sources[lastRet.node]).fps

\* C34: after any sequence of add_source, remove_source, make and load_cache
\* on the nodes, the record of a node, when present, has one entry for each
\* of its sources, and neither make nor save_cache has indexed a record out
\* of range.
C34_RecordMatchesSources ==
    /\ \A n \in Nodes :
           snapshots[n] # NoneSnap => Len(snapshots[n]) = Len(sources[n])
    /\ fault.kind # "index"

\* The nodes whose making flag is set are the nodes of the calls in progress,
\* and no node has two of them.
FlagsAreFrames ==
    /\ \A n \in Nodes : making[n] = OnStack(n)
    /\ \A i, j \in 1..Len(stack) : stack[i].node = stack[j].node => i = j

\* The step raises an exception.
Raises == fault' # fault /\ fault' # NoFault

C35_Step ==
    FlagsAreFrames =>
        /\ Raises => fault'.kind \notin {"making", "AssertionError"}
        /\ ~Raises => FlagsAreFrames'

C36_OneProducerPerPath ==
    /\ \A n \in Nodes : \A p \in Range(products[n]) :
           p \in DOMAIN files /\ files[p].producer = n
    /\ \A n, m \in Nodes :
           n # m => Range(products[n]) \cap Range(products[m]) = {}

\* C37: parse reads every line of a log that readlog has accepted without
\* raising: the list of open files keeps its bottom entry, whatever the
\* number of ")" in the lines, and no empty line is indexed.
C37_ParseNeverRaises ==
    /\ parser.fault = ""
    /\ parser.pos # <<>>

\* parse was called as get_errors calls it and has read the whole log.
ErrorsPassDone ==
    /\ parser.pc = "done"
    /\ parser.errors
    /\ ~parser.boxes /\ ~parser.refs /\ ~parser.warnings

\* C38: on every log, errors() returns true exactly when parse with errors
\* alone (get_errors) yields a diagnostic of kind error or abort; a log in
\* which errors() finds an error has a diagnostic to report.
C38_DetectorsAgree ==
    ErrorsPassDone =>
        (errors(parser.lines) <=>
             \E i \in 1..Len(parser.out) : parser.out[i].kind \in {"error", "abort"})

\* parse with the flags given, run over the lines from the i-th on.
RECURSIVE PassFrom(_, _, _)
PassFrom(p, lines, i) ==
    IF i > Len(lines) \/ p.pc = "raised" THEN p
    ELSE PassFrom(Iterate(p, lines[i]), lines, i + 1)

\* What parse yields on the lines with every flag set.
FullPass(lines) == PassFrom(Locals(NoParser, TRUE, TRUE, TRUE, TRUE), lines, 1).out

\* The flag that guards the yield of the diagnostic d: errors for errors and
\* aborts; refs for undefined references (they name the reference) and for
\* labels (no page, no package); boxes for bad boxes (the text is that of
\* the bad box); warnings for the others, those of pdfTeX included.
GuardOf(d) ==
    IF d.kind \in {"error", "abort"} THEN "errors"
    ELSE IF d.ref # Absent THEN "refs"
    ELSE IF d.page = Absent /\ d.pkg = Absent THEN "refs"
    ELSE IF d.page # Absent /\ (\E head \in {TextOverfull, TextUnderfull} :
                                   StartsWith(d.text, head))
    THEN "boxes"
    ELSE "warnings"

\* The flags that the pass p was called with.
FlagsOf(p) ==
    {f \in {"errors", "boxes", "refs", "warnings"} :
        \/ f = "errors" /\ p.errors
        \/ f = "boxes" /\ p.boxes
        \/ f = "refs" /\ p.refs
        \/ f = "warnings" /\ p.warnings}

\* C39: what parse yields with a set of flags is what it yields with every
\* flag set, restricted to the diagnostics guarded by a flag of the set, in
\* the same order and with the same entries; with no flag nothing is
\* yielded.
C39_FlagsOnlyFilter ==
    parser.pc # "" =>
        parser.out = SelectSeq(FullPass(parser.lines), LAMBDA d : GuardOf(d) \in FlagsOf(parser))

\* The step reads the line that ends the long warning that is open: a line
\* outside an error that does not start with the prefix of the warning.
ReadsTerminator ==
    /\ parser.pc = "loop"
    /\ parser.prefix # NoneText
    /\ ~parser.parsing /\ ~parser.skipping
    /\ parser.accu = <<>>
    /\ Len(parser'.lines) = Len(parser.lines) + 1
    /\ LET line == parser'.lines[Len(parser'.lines)]
       IN  /\ ~continued(line)
           /\ ~StartsWith(line, parser.prefix)
           /\ ~StartsWith(line, <<"!">>)

C40_Step ==
    /\ ReadsTerminator =>
           LET line == parser'.lines[Len(parser'.lines)]
           IN  /\ parser.warnings =>
                      /\ Len(parser'.out) > Len(parser.out)
                      /\ parser'.out[Len(parser.out) + 1].text = Join(parser.text)
               /\ parser'.page = update_page(line, parser.page)
               /\ re_badbox(line) => parser'.skipping
               /\ re_warning(line).matched => parser'.prefix # NoneText
    /\ (parser.pc = "loop" /\ parser'.pc = "done" /\ parser.warnings) =>
           parser.prefix = NoneText \/ Len(parser'.out) > Len(parser.out)

\* C40: no opened warning is lost and no line is consumed unexamined: the
\* line that ends a long warning yields the warning (with warnings enabled)
\* and is itself processed, so that a page marker, a bad box or a new
\* warning on it takes effect; and a warning that is pending when the log
\* ends is yielded before parse finishes.
C40_NoLineLost == [][C40_Step]_vars

====
